---- MODULE Spec2Model ----
(***************************************************************************)
(* Model of the bookmark site's asynchronous classification job engine:   *)
(* the process-wide job table of lib/bookmarks/ai-jobs.ts and the         *)
(* background task, the poll handler and the cancel handler of            *)
(* app/api/bookmarks/ai-organize/route.ts.                                *)
(*                                                                         *)
(* The background task is an async function.  Each of its actions is one   *)
(* run of the task between two awaits: from the launch to the first        *)
(* `await fetch`, from a settled fetch to `await response.json()`, and     *)
(* from a settled body read to the next fetch or to the end of the task.   *)
(* fetch and response.json() are platform calls: once the signal handed to *)
(* fetch is aborted a pending call may reject with the signal's reason,    *)
(* and it may also still settle with the response that was on its way.     *)
(* The functions of the job table and the awaited calls do not throw, so   *)
(* the trailing .catch of launchAiOrganizeJob never runs.                  *)
(*                                                                         *)
(* Strings whose content the code inspects (names, ids) are sequences of   *)
(* one-character strings; the fixed messages are named by definitions.     *)
(***************************************************************************)
EXTENDS Integers, Sequences, FiniteSets, TLC

VARIABLES store, task, clock, reply, sent, hist, cancelAt, cancels, call

\* The job engine's variables; call holds one application of one of the pure
\* functions of the viewer and of the plan validation (its arguments, then
\* also its result), and stays idle while the job engine runs.
jobVars == <<store, task, clock, reply, sent, hist, cancelAt, cancels>>

vars == <<jobVars, call>>

(***************************************************************************)
(* Bounds of the model.                                                    *)
(***************************************************************************)
MaxCancels == 2
MaxRefs == 1
MaxRespGroups == 1

(***************************************************************************)
(* Program constants.                                                      *)
(***************************************************************************)
MAX_GROUPS == 12
MAX_AI_ATTEMPTS == 2

JobIds == {"job1"}

(***************************************************************************)
(* An optional value (undefined, null, or a value) is a sequence of length *)
(* at most one.                                                            *)
(***************************************************************************)
Undefined == <<>>

Some(v) == <<v>>

(***************************************************************************)
(* Strings.                                                                *)
(***************************************************************************)
IsWhitespace(ch) == ch = " "

RECURSIVE TrimStart(_)
TrimStart(s) ==
  IF s = <<>> THEN <<>>
  ELSE IF IsWhitespace(Head(s)) THEN TrimStart(Tail(s)) ELSE s

RECURSIVE TrimEnd(_)
TrimEnd(s) ==
  IF s = <<>> THEN <<>>
  ELSE IF IsWhitespace(s[Len(s)]) THEN TrimEnd(SubSeq(s, 1, Len(s) - 1)) ELSE s

Trim(s) == TrimEnd(TrimStart(s))

(***************************************************************************)
(* Messages of the errors the engine raises or receives, and the markers   *)
(* isRetryableAiError looks for inside a message.                          *)
(***************************************************************************)
MsgUserStopped == "AI organize job was stopped by the user"
MsgTimeout == "AI request timed out"
MsgFetchFailed == "fetch failed"
MsgHttpFailed == "AI endpoint request failed (status)"
MsgServerReason == "quota exceeded"
MsgBadFormat == "AI returned data in a wrong format"
MsgEmptyContent == "AI returned empty content"
MsgNoJson == "AI returned content that cannot be parsed as JSON"
MsgBadStructure == "AI returned a wrong structure"
MsgNoGroups == "AI returned no valid grouping result"

MarkJson == "JSON"
MarkStructure == "wrong structure"
MarkGroups == "grouping result"
MarkEmpty == "empty content"
MarkFormat == "wrong format"
MarkAborted == "The operation was aborted"

MessageIncludes(message, marker) ==
  \/ message = MsgNoJson /\ marker = MarkJson
  \/ message = MsgBadStructure /\ marker = MarkStructure
  \/ message = MsgNoGroups /\ marker = MarkGroups
  \/ message = MsgEmptyContent /\ marker = MarkEmpty
  \/ message = MsgBadFormat /\ marker = MarkFormat

Err(name, message) == [name |-> name, message |-> message]

AiRequestError(message) == Err("AiRequestError", message)

UserAbortError == Err("AbortError", MsgUserStopped)

TimeoutError == Err("TimeoutError", MsgTimeout)

NetworkError == Err("TypeError", MsgFetchFailed)

isAbortError(error) ==
  error.name = "AbortError" \/ MessageIncludes(error.message, MarkAborted)

isRetryableAiError(error) ==
  \E marker \in {MarkJson, MarkStructure, MarkGroups, MarkEmpty, MarkFormat} :
    MessageIncludes(error.message, marker)

(***************************************************************************)
(* The job table: a map from job id to {snapshot, controller}.  The        *)
(* controller field is TRUE while the task's AbortController is attached.  *)
(***************************************************************************)
Merge(snapshot, updates) ==
  [k \in DOMAIN snapshot |-> IF k \in DOMAIN updates THEN updates[k] ELSE snapshot[k]]

MapSet(st, key, value) ==
  [k \in DOMAIN st \cup {key} |-> IF k = key THEN value ELSE st[k]]

MapDelete(st, key) == [k \in DOMAIN st \ {key} |-> st[k]]

getAiOrganizeJob(st, jobId) ==
  IF jobId \notin DOMAIN st THEN Undefined ELSE Some(st[jobId].snapshot)

createAiOrganizeJob(st, jobId, totalBookmarks, now) ==
  MapSet(st, jobId,
    [snapshot |->
       [id |-> jobId, status |-> "pending", totalBookmarks |-> totalBookmarks,
        cancelRequested |-> FALSE, createdAt |-> Some(now), updatedAt |-> Some(now),
        startedAt |-> Undefined, finishedAt |-> Undefined,
        result |-> Undefined, error |-> Undefined],
     controller |-> FALSE])

\* updateAiOrganizeJob that stores a record for an id the table does not hold.
updateAiOrganizeJob_Upserts(st, jobId, updates, now) ==
  LET base == IF jobId \in DOMAIN st THEN st ELSE createAiOrganizeJob(st, jobId, 0, now)
  IN [base EXCEPT ![jobId].snapshot =
        Merge(Merge(base[jobId].snapshot, updates), [updatedAt |-> Some(now)])]

updateAiOrganizeJob(st, jobId, updates, now) ==
  IF jobId \notin DOMAIN st THEN st
  ELSE [st EXCEPT ![jobId].snapshot =
          Merge(Merge(st[jobId].snapshot, updates), [updatedAt |-> Some(now)])]

setAiOrganizeJobController(st, jobId, attached) ==
  IF jobId \notin DOMAIN st THEN st
  ELSE [st EXCEPT ![jobId].controller = attached]

\* clearAiOrganizeJobController that leaves the controller attached.
clearAiOrganizeJobController_Keeps(st, jobId) == st

clearAiOrganizeJobController(st, jobId) ==
  IF jobId \notin DOMAIN st THEN st
  ELSE [st EXCEPT ![jobId].controller = FALSE]

removeAiOrganizeJob(st, jobId) == MapDelete(st, jobId)

IsTerminal(status) == status \in {"succeeded", "failed", "cancelled"}

\* Variants of markAiOrganizeJobCancelRequested with a plausible slip each:
\* no early return for a finished job; a pending job left pending; the
\* request recorded on a finished job.
markCancel_NoTerminalGuard(st, jobId, now) ==
  IF jobId \notin DOMAIN st THEN st
  ELSE LET current == st[jobId].snapshot
       IN [st EXCEPT ![jobId] =
            [snapshot |->
               Merge(current,
                 [cancelRequested |-> TRUE,
                  status |-> IF current.status = "running" THEN "running" ELSE "cancelled",
                  finishedAt |-> IF current.status = "running" THEN current.finishedAt
                                 ELSE Some(now),
                  updatedAt |-> Some(now)]),
             controller |-> FALSE]]

markCancel_KeepsPending(st, jobId, now) ==
  IF jobId \notin DOMAIN st THEN st
  ELSE LET current == st[jobId].snapshot
       IN IF IsTerminal(current.status) THEN st
          ELSE [st EXCEPT ![jobId] =
                 [snapshot |->
                    Merge(current, [cancelRequested |-> TRUE, updatedAt |-> Some(now)]),
                  controller |-> FALSE]]

markCancel_RecordsOnTerminal(st, jobId, now) ==
  IF jobId \notin DOMAIN st THEN st
  ELSE LET current == st[jobId].snapshot
       IN [st EXCEPT ![jobId] =
            [snapshot |->
               Merge(current,
                 [cancelRequested |-> TRUE,
                  status |-> IF current.status = "pending" THEN "cancelled"
                             ELSE current.status,
                  finishedAt |-> IF current.status = "pending" THEN Some(now)
                                 ELSE current.finishedAt,
                  updatedAt |-> Some(now)]),
             controller |-> FALSE]]

markAiOrganizeJobCancelRequested(st, jobId, now) ==
  IF jobId \notin DOMAIN st THEN st
  ELSE LET current == st[jobId].snapshot
       IN IF IsTerminal(current.status) THEN st
          ELSE [st EXCEPT ![jobId] =
                 [snapshot |->
                    Merge(current,
                      [cancelRequested |-> TRUE,
                       status |-> IF current.status = "pending" THEN "cancelled"
                                  ELSE current.status,
                       finishedAt |-> IF current.status = "pending" THEN Some(now)
                                      ELSE current.finishedAt,
                       updatedAt |-> Some(now)]),
                  controller |-> FALSE]]

(***************************************************************************)
(* The model's reply.  The HTTP body decodes to a payload; a payload with  *)
(* content carries the raw text of the model, described by what the        *)
(* extraction pipeline makes of it: text without any JSON in it, a JSON    *)
(* value that is not an object, or a JSON object whose groups field is an  *)
(* array (Some) or not (Undefined).  A raw group and a raw bookmark        *)
(* reference are JSON values: objects or not, with string fields (Some)    *)
(* or fields of another type (Undefined).                                  *)
(***************************************************************************)
RawRef(id) == [object |-> TRUE, id |-> Some(id), newName |-> Undefined]

RawGroup(name, bookmarks) == [object |-> TRUE, name |-> Some(name), bookmarks |-> Some(bookmarks)]

NonObject == [object |-> FALSE]

SeqsUpTo(S, n) == UNION {[1..m -> S] : m \in 0..n}

RawRefs == {RawRef(<<" ">>), RawRef(<<"1">>)}

RawNames == {<<" ">>, <<" ", "D">>}

RawGroups ==
  {RawGroup(name, refs) : name \in RawNames, refs \in SeqsUpTo(RawRefs, MaxRefs)}
    \cup {NonObject}

Contents ==
  {[kind |-> "text"], [kind |-> "scalar"], [kind |-> "object", groups |-> Undefined]}
    \cup {[kind |-> "object", groups |-> Some(gs)] : gs \in SeqsUpTo(RawGroups, MaxRespGroups)}

Payloads ==
  {[kind |-> "notObject"], [kind |-> "noContent"], [kind |-> "serverError"]}
    \cup {[kind |-> "content", content |-> c] : c \in Contents}

(***************************************************************************)
(* normalizePlan and its helpers return [ok |-> TRUE, value |-> v] or      *)
(* [ok |-> FALSE, error |-> e] for a thrown error e.                       *)
(***************************************************************************)
Return(v) == [ok |-> TRUE, value |-> v]

Throw(e) == [ok |-> FALSE, error |-> e]

extractCompletionContent(payload) ==
  IF payload.kind = "notObject" THEN Throw(Err("Error", MsgBadFormat))
  ELSE IF payload.kind \in {"noContent", "serverError"}
    THEN Throw(Err("Error", MsgEmptyContent))
  ELSE Return(payload.content)

RECURSIVE NormalizeBookmarks(_, _, _)
NormalizeBookmarks(bookmarksInput, bookmarks, seen) ==
  IF bookmarksInput = <<>> THEN bookmarks
  ELSE LET bookmark == Head(bookmarksInput)
           rest == Tail(bookmarksInput)
           id == IF bookmark.object /\ bookmark.id # Undefined
                 THEN Trim(bookmark.id[1]) ELSE <<>>
           newName == IF bookmark.newName # Undefined
                      THEN Trim(bookmark.newName[1]) ELSE <<>>
       IN IF ~bookmark.object THEN NormalizeBookmarks(rest, bookmarks, seen)
          ELSE IF id = <<>> \/ id \in seen THEN NormalizeBookmarks(rest, bookmarks, seen)
          ELSE NormalizeBookmarks(rest,
                 Append(bookmarks,
                   [id |-> id,
                    newName |-> IF newName # <<>> THEN Some(newName) ELSE Undefined]),
                 seen \cup {id})

\* NormalizeGroups without the break at MAX_GROUPS.
RECURSIVE NormalizeGroups_NoCap(_, _)
NormalizeGroups_NoCap(groupsInput, groups) ==
  IF groupsInput = <<>> THEN groups
  ELSE LET group == Head(groupsInput)
           rest == Tail(groupsInput)
           name == IF group.object /\ group.name # Undefined
                   THEN Trim(group.name[1]) ELSE <<>>
           bookmarksInput == IF group.bookmarks # Undefined
                             THEN group.bookmarks[1] ELSE <<>>
           bookmarks == NormalizeBookmarks(bookmarksInput, <<>>, {})
       IN IF ~group.object THEN NormalizeGroups_NoCap(rest, groups)
          ELSE IF name = <<>> THEN NormalizeGroups_NoCap(rest, groups)
          ELSE IF Len(bookmarks) > 0
            THEN NormalizeGroups_NoCap(rest,
                   Append(groups, [name |-> name, bookmarks |-> bookmarks]))
          ELSE NormalizeGroups_NoCap(rest, groups)

RECURSIVE NormalizeGroups(_, _)
NormalizeGroups(groupsInput, groups) ==
  IF groupsInput = <<>> THEN groups
  ELSE LET group == Head(groupsInput)
           rest == Tail(groupsInput)
           name == IF group.object /\ group.name # Undefined
                   THEN Trim(group.name[1]) ELSE <<>>
           bookmarksInput == IF group.bookmarks # Undefined
                             THEN group.bookmarks[1] ELSE <<>>
           bookmarks == NormalizeBookmarks(bookmarksInput, <<>>, {})
       IN IF ~group.object THEN NormalizeGroups(rest, groups)
          ELSE IF name = <<>> THEN NormalizeGroups(rest, groups)
          ELSE IF Len(bookmarks) > 0
            THEN IF Len(groups) + 1 >= MAX_GROUPS
                 THEN Append(groups, [name |-> name, bookmarks |-> bookmarks])
                 ELSE NormalizeGroups(rest,
                        Append(groups, [name |-> name, bookmarks |-> bookmarks]))
          ELSE NormalizeGroups(rest, groups)

\* normalizePlan that returns whatever groups the filtering left.
normalizePlan_AcceptsEmpty(content) ==
  IF content.kind = "text" THEN Throw(Err("Error", MsgNoJson))
  ELSE IF content.kind = "scalar" THEN Throw(Err("Error", MsgBadStructure))
  ELSE LET groupsInput == IF content.groups # Undefined THEN content.groups[1] ELSE <<>>
       IN Return([groups |-> NormalizeGroups(groupsInput, <<>>)])

normalizePlan(content) ==
  IF content.kind = "text" THEN Throw(Err("Error", MsgNoJson))
  ELSE IF content.kind = "scalar" THEN Throw(Err("Error", MsgBadStructure))
  ELSE LET groupsInput == IF content.groups # Undefined THEN content.groups[1] ELSE <<>>
           groups == NormalizeGroups(groupsInput, <<>>)
       IN IF Len(groups) = 0 THEN Throw(Err("Error", MsgNoGroups))
          ELSE Return([groups |-> groups])

(***************************************************************************)
(* The background task.  task[j] holds the locals of launchAiOrganizeJob,  *)
(* generateAiPlan and requestAiCompletion for job j:                       *)
(*   pc       "none" (no job), "created" (task not launched yet),          *)
(*            "fetch" (awaiting fetch), "body" (awaiting response.json()), *)
(*            "done"                                                       *)
(*   attempt  the loop counter of generateAiPlan                           *)
(*   aborted  controller.signal.aborted of the task's AbortController      *)
(*   timer    the timeout timer of the current request                     *)
(*   merged   the reason of the merged signal: "none", "user", "timeout"   *)
(*   ok       response.ok of the response whose body is being read         *)
(***************************************************************************)
NoTask ==
  [pc |-> "none", attempt |-> 0, aborted |-> FALSE, timer |-> "none",
   merged |-> "none", ok |-> FALSE, lastError |-> Undefined]

\* throwIfAborted that never throws.
throwIfAborted_Never(aborted) == Return(TRUE)

throwIfAborted(aborted) ==
  IF aborted THEN Throw(UserAbortError) ELSE Return(TRUE)

mergeAbortSignals(aborted, timerFired) ==
  IF aborted THEN "user" ELSE IF timerFired THEN "timeout" ELSE "none"

SignalReason(merged) == IF merged = "user" THEN UserAbortError ELSE TimeoutError

\* FinishJob without the check of cancelRequested after a successful plan.
FinishJob_LateSuccessWins(st, jobId, outcome, now) ==
  LET latest == getAiOrganizeJob(st, jobId)
      cancelRequested == latest # Undefined /\ latest[1].cancelRequested
      updated ==
        IF outcome.ok
        THEN updateAiOrganizeJob(st, jobId,
               [status |-> "succeeded", finishedAt |-> Some(now),
                result |-> Some([plan |-> outcome.value]), error |-> Undefined,
                cancelRequested |-> FALSE], now)
        ELSE IF isAbortError(outcome.error) \/ cancelRequested
             THEN updateAiOrganizeJob(st, jobId,
                    [status |-> "cancelled", finishedAt |-> Some(now),
                     result |-> Undefined, cancelRequested |-> TRUE], now)
             ELSE updateAiOrganizeJob(st, jobId,
                    [status |-> "failed", finishedAt |-> Some(now),
                     error |-> Some(outcome.error.message),
                     cancelRequested |-> FALSE], now)
  IN clearAiOrganizeJobController(updated, jobId)

\* FinishJob that tells a cancellation only by the error being an abort.
FinishJob_AbortErrorOnly(st, jobId, outcome, now) ==
  LET latest == getAiOrganizeJob(st, jobId)
      cancelRequested == latest # Undefined /\ latest[1].cancelRequested
      updated ==
        IF outcome.ok
        THEN IF cancelRequested
             THEN updateAiOrganizeJob(st, jobId,
                    [status |-> "cancelled", finishedAt |-> Some(now),
                     cancelRequested |-> TRUE, result |-> Undefined], now)
             ELSE updateAiOrganizeJob(st, jobId,
                    [status |-> "succeeded", finishedAt |-> Some(now),
                     result |-> Some([plan |-> outcome.value]), error |-> Undefined,
                     cancelRequested |-> FALSE], now)
        ELSE IF isAbortError(outcome.error)
             THEN updateAiOrganizeJob(st, jobId,
                    [status |-> "cancelled", finishedAt |-> Some(now),
                     result |-> Undefined, cancelRequested |-> TRUE], now)
             ELSE updateAiOrganizeJob(st, jobId,
                    [status |-> "failed", finishedAt |-> Some(now),
                     error |-> Some(outcome.error.message),
                     cancelRequested |-> FALSE], now)
  IN clearAiOrganizeJobController(updated, jobId)

\* FinishJob that does not stamp finishedAt on a failed job.
FinishJob_FailedWithoutFinishedAt(st, jobId, outcome, now) ==
  LET latest == getAiOrganizeJob(st, jobId)
      cancelRequested == latest # Undefined /\ latest[1].cancelRequested
      updated ==
        IF outcome.ok
        THEN IF cancelRequested
             THEN updateAiOrganizeJob(st, jobId,
                    [status |-> "cancelled", finishedAt |-> Some(now),
                     cancelRequested |-> TRUE, result |-> Undefined], now)
             ELSE updateAiOrganizeJob(st, jobId,
                    [status |-> "succeeded", finishedAt |-> Some(now),
                     result |-> Some([plan |-> outcome.value]), error |-> Undefined,
                     cancelRequested |-> FALSE], now)
        ELSE IF isAbortError(outcome.error) \/ cancelRequested
             THEN updateAiOrganizeJob(st, jobId,
                    [status |-> "cancelled", finishedAt |-> Some(now),
                     result |-> Undefined, cancelRequested |-> TRUE], now)
             ELSE updateAiOrganizeJob(st, jobId,
                    [status |-> "failed", error |-> Some(outcome.error.message),
                     cancelRequested |-> FALSE], now)
  IN clearAiOrganizeJobController(updated, jobId)

\* launchAiOrganizeJob, after generateAiPlan returned or threw.
FinishJob(st, jobId, outcome, now) ==
  LET latest == getAiOrganizeJob(st, jobId)
      cancelRequested == latest # Undefined /\ latest[1].cancelRequested
      updated ==
        IF outcome.ok
        THEN IF cancelRequested
             THEN updateAiOrganizeJob(st, jobId,
                    [status |-> "cancelled", finishedAt |-> Some(now),
                     cancelRequested |-> TRUE, result |-> Undefined], now)
             ELSE updateAiOrganizeJob(st, jobId,
                    [status |-> "succeeded", finishedAt |-> Some(now),
                     result |-> Some([plan |-> outcome.value]), error |-> Undefined,
                     cancelRequested |-> FALSE], now)
        ELSE IF isAbortError(outcome.error) \/ cancelRequested
             THEN updateAiOrganizeJob(st, jobId,
                    [status |-> "cancelled", finishedAt |-> Some(now),
                     result |-> Undefined, cancelRequested |-> TRUE], now)
             ELSE updateAiOrganizeJob(st, jobId,
                    [status |-> "failed", finishedAt |-> Some(now),
                     error |-> Some(outcome.error.message),
                     cancelRequested |-> FALSE], now)
  IN clearAiOrganizeJobController(updated, jobId)

\* GenerateCatch that reports the remembered first error when it gives up.
GenerateCatch_ReportsFirstError(attempt, error, lastError) ==
  IF error.name = "AiRequestError" THEN [retry |-> FALSE, error |-> error]
  ELSE IF isAbortError(error) THEN [retry |-> FALSE, error |-> error]
  ELSE IF isRetryableAiError(error) /\ attempt < MAX_AI_ATTEMPTS - 1
    THEN [retry |-> TRUE, lastError |-> Some(error)]
  ELSE [retry |-> FALSE,
        error |-> AiRequestError(IF lastError # Undefined THEN lastError[1].message
                                 ELSE error.message)]

\* The catch block of generateAiPlan's loop body: rethrow, wrap, or retry.
GenerateCatch(attempt, error, lastError) ==
  IF error.name = "AiRequestError" THEN [retry |-> FALSE, error |-> error]
  ELSE IF isAbortError(error) THEN [retry |-> FALSE, error |-> error]
  ELSE IF isRetryableAiError(error) /\ attempt < MAX_AI_ATTEMPTS - 1
    THEN [retry |-> TRUE, lastError |-> Some(error)]
  ELSE [retry |-> FALSE, error |-> AiRequestError(error.message)]

\* The task sends the request of the attempt it is in and awaits fetch.
SendRequest(t, attempt) ==
  [t EXCEPT !.pc = "fetch", !.attempt = attempt, !.timer = "armed",
            !.merged = mergeAbortSignals(t.aborted, FALSE), !.ok = FALSE]

\* The task resumes with the outcome of the attempt it awaited: the plan
\* that requestAiCompletion and normalizePlan produced, or the error thrown.
ResumeTask(j, outcome, end, decoded) ==
  LET t == task[j]
      caught == GenerateCatch(t.attempt, outcome.error, t.lastError)
      retry == ~outcome.ok /\ caught.retry
      guard == throwIfAborted(t.aborted)
      final == IF outcome.ok THEN outcome
               ELSE IF ~caught.retry THEN Throw(caught.error)
               ELSE guard
  IN /\ hist' = [hist EXCEPT ![j] = Append(@,
                   [end |-> end, decoded |-> decoded,
                    message |-> IF outcome.ok THEN Undefined
                                ELSE Some(outcome.error.message)])]
     /\ IF retry /\ guard.ok
        THEN /\ task' = [task EXCEPT ![j] =
                  [SendRequest(t, t.attempt + 1) EXCEPT !.lastError = caught.lastError]]
             /\ sent' = [sent EXCEPT ![j] = @ + 1]
             /\ UNCHANGED <<store, clock>>
        ELSE /\ store' = FinishJob(store, j, final, clock)
             /\ task' = [task EXCEPT ![j] =
                  [t EXCEPT !.pc = "done", !.timer = "disposed", !.merged = "none"]]
             /\ clock' = clock + 1
             /\ UNCHANGED sent

(***************************************************************************)
(* Initial state: an empty job table, no task.                             *)
(***************************************************************************)
TotalBookmarks == {1, 2}

NoReply == [op |-> "none", code |-> 0, job |-> Undefined]

NoJobs ==
  /\ store = [j \in {} |-> NoTask]
  /\ task = [j \in JobIds |-> NoTask]
  /\ clock = 0
  /\ reply = NoReply
  /\ sent = [j \in JobIds |-> 0]
  /\ hist = [j \in JobIds |-> <<>>]
  /\ cancelAt = [j \in JobIds |-> Undefined]
  /\ cancels = 0

NoCall == [op |-> "none"]

Init == NoJobs /\ call = NoCall

(***************************************************************************)
(* POST creates the job (createAiOrganizeJob) and launches the task.  The  *)
(* two calls are separate actions, so that a cancel can fall between them  *)
(* as launchAiOrganizeJob provides for.                                    *)
(***************************************************************************)
CreateJob(j, totalBookmarks) ==
  /\ task[j].pc = "none"
  /\ j \notin DOMAIN store
  /\ store' = createAiOrganizeJob(store, j, totalBookmarks, clock)
  /\ task' = [task EXCEPT ![j].pc = "created"]
  /\ reply' = [op |-> "POST", code |-> 202, job |-> getAiOrganizeJob(store', j)]
  /\ clock' = clock + 1
  /\ UNCHANGED <<sent, hist, cancelAt, cancels, call>>

\* LaunchSkips without any check: the task always starts.
LaunchSkips_Never(initial) == FALSE

\* The task does not start a job that is cancelled or no longer pending.
LaunchSkips(initial) == initial.cancelRequested \/ initial.status # "pending"

LaunchJob(j) ==
  /\ task[j].pc = "created"
  /\ LET initial == getAiOrganizeJob(store, j)
     IN IF initial = Undefined
        THEN /\ task' = [task EXCEPT ![j].pc = "done"]
             /\ UNCHANGED <<store, clock, sent>>
        ELSE IF LaunchSkips(initial[1])
        THEN /\ task' = [task EXCEPT ![j].pc = "done"]
             /\ IF initial[1].cancelRequested /\ initial[1].status # "cancelled"
                THEN /\ store' = updateAiOrganizeJob(store, j,
                                   [status |-> "cancelled", finishedAt |-> Some(clock)],
                                   clock)
                     /\ clock' = clock + 1
                ELSE UNCHANGED <<store, clock>>
             /\ UNCHANGED sent
        ELSE LET running == updateAiOrganizeJob(store, j,
                              [status |-> "running", startedAt |-> Some(clock),
                               error |-> Undefined], clock)
             IN /\ store' = setAiOrganizeJobController(running, j, TRUE)
                /\ throwIfAborted(FALSE).ok
                /\ task' = [task EXCEPT ![j] = SendRequest(@, 0)]
                /\ sent' = [sent EXCEPT ![j] = @ + 1]
                /\ clock' = clock + 1
  /\ UNCHANGED <<reply, hist, cancelAt, cancels, call>>

(***************************************************************************)
(* The platform settles the awaited fetch.                                 *)
(***************************************************************************)
FetchResolve(j, ok) ==
  /\ task[j].pc = "fetch"
  /\ task' = [task EXCEPT ![j].pc = "body", ![j].ok = ok]
  /\ UNCHANGED <<store, clock, reply, sent, hist, cancelAt, cancels, call>>

FetchReject(j, cause) ==
  /\ task[j].pc = "fetch"
  /\ \/ cause = "network"
     \/ cause = "abort" /\ task[j].merged = "user"
     \/ cause = "timeout" /\ task[j].merged = "timeout"
  /\ ResumeTask(j,
       Throw(IF cause = "network" THEN NetworkError ELSE SignalReason(task[j].merged)),
       cause, Undefined)
  /\ UNCHANGED <<reply, cancelAt, cancels, call>>

(***************************************************************************)
(* The platform settles response.json(): safeReadJson returns the payload, *)
(* or null when the read failed for whatever reason.  The rest of          *)
(* requestAiCompletion and of the loop body of generateAiPlan follows.     *)
(***************************************************************************)
BodyResults ==
  {[read |-> TRUE, payload |-> p] : p \in Payloads}
    \cup {[read |-> FALSE, cause |-> c] : c \in {"content", "network", "abort", "timeout"}}

requestAiCompletion(ok, body) ==
  LET payloadJson == IF body.read THEN body.payload ELSE [kind |-> "notObject"]
  IN IF ~ok
     THEN Throw(AiRequestError(
            IF payloadJson.kind = "serverError" THEN MsgServerReason ELSE MsgHttpFailed))
     ELSE extractCompletionContent(payloadJson)

AttemptOutcome(ok, body) ==
  LET completion == requestAiCompletion(ok, body)
  IN IF completion.ok THEN normalizePlan(completion.value) ELSE completion

AttemptEnd(ok, body, outcome) ==
  IF ~ok THEN "http"
  ELSE IF ~body.read THEN body.cause
  ELSE IF outcome.ok THEN "ok" ELSE "content"

\* What the response of an attempt held, for the record of attempts: of a
\* 2xx response whose content is a JSON object, the number of entries of its
\* groups array and the number of those that have a name with a non-blank
\* character and a reference with an id with a non-blank character.
NonBlank(string) ==
  string # Undefined /\ \E i \in 1..Len(string[1]) : string[1][i] # " "

UsableGroup(group) ==
  /\ group.object
  /\ NonBlank(group.name)
  /\ group.bookmarks # Undefined
  /\ \E k \in 1..Len(group.bookmarks[1]) :
        group.bookmarks[1][k].object /\ NonBlank(group.bookmarks[1][k].id)

Decoded(ok, body) ==
  IF ok /\ body.read /\ body.payload.kind = "content"
        /\ body.payload.content.kind = "object"
  THEN LET groups == IF body.payload.content.groups = Undefined THEN <<>>
                     ELSE body.payload.content.groups[1]
       IN Some([raw |-> Len(groups),
                usable |-> Cardinality({i \in 1..Len(groups) : UsableGroup(groups[i])})])
  ELSE Undefined

BodyRead(j, body) ==
  /\ task[j].pc = "body"
  /\ IF body.read THEN TRUE
     ELSE \/ body.cause \in {"content", "network"}
          \/ body.cause = "abort" /\ task[j].merged = "user"
          \/ body.cause = "timeout" /\ task[j].merged = "timeout"
  /\ LET outcome == AttemptOutcome(task[j].ok, body)
     IN ResumeTask(j, outcome, AttemptEnd(task[j].ok, body, outcome),
                   Decoded(task[j].ok, body))
  /\ UNCHANGED <<reply, cancelAt, cancels, call>>

\* The timer of createTimeoutController fires while the request is in flight.
TimeoutFires(j) ==
  /\ task[j].pc \in {"fetch", "body"}
  /\ task[j].timer = "armed"
  /\ task' = [task EXCEPT ![j].timer = "fired",
                          ![j].merged = IF @ = "none" THEN "timeout" ELSE @]
  /\ UNCHANGED <<store, clock, reply, sent, hist, cancelAt, cancels, call>>

(***************************************************************************)
(* The HTTP handlers for one job: GET polls, DELETE cancels.               *)
(***************************************************************************)
GET(j) ==
  /\ reply' = LET job == getAiOrganizeJob(store, j)
              IN [op |-> "GET", code |-> IF job = Undefined THEN 404 ELSE 200, job |-> job]
  /\ UNCHANGED <<store, task, clock, sent, hist, cancelAt, cancels, call>>

DELETE(j) ==
  /\ cancels < MaxCancels
  /\ cancels' = cancels + 1
  /\ store' = markAiOrganizeJobCancelRequested(store, j, clock)
  /\ clock' = IF store' = store THEN clock ELSE clock + 1
  /\ LET aborts == j \in DOMAIN store /\ store[j].controller
                   /\ ~IsTerminal(store[j].snapshot.status)
     IN task' = [task EXCEPT
                   ![j].aborted = @ \/ aborts,
                   ![j].merged = IF aborts /\ @ = "none" THEN "user" ELSE @]
  /\ cancelAt' = IF j \in DOMAIN store /\ ~IsTerminal(store[j].snapshot.status)
                    /\ cancelAt[j] = Undefined
                 THEN [cancelAt EXCEPT ![j] =
                         Some([pc |-> task[j].pc, attempt |-> task[j].attempt])]
                 ELSE cancelAt
  /\ reply' = LET job == getAiOrganizeJob(store', j)
              IN [op |-> "DELETE", code |-> IF job = Undefined THEN 404 ELSE 200, job |-> job]
  /\ UNCHANGED <<sent, hist, call>>

Next ==
  \E j \in JobIds :
    \/ \E n \in TotalBookmarks : CreateJob(j, n)
    \/ LaunchJob(j)
    \/ \E ok \in BOOLEAN : FetchResolve(j, ok)
    \/ \E cause \in {"network", "abort", "timeout"} : FetchReject(j, cause)
    \/ \E body \in BodyResults : BodyRead(j, body)
    \/ TimeoutFires(j)
    \/ GET(j)
    \/ DELETE(j)

Spec == Init /\ [][Next]_vars

(***************************************************************************)
(* Properties of the job engine.                                           *)
(***************************************************************************)
Present(j) == j \in DOMAIN store

Snapshot(j) == store[j].snapshot

CancelledWhile(j, pcs) == cancelAt[j] # Undefined /\ cancelAt[j][1].pc \in pcs

StatusSteps ==
  {<<"pending", "running">>, <<"running", "succeeded">>, <<"running", "failed">>,
   <<"running", "cancelled">>, <<"pending", "cancelled">>}

\* C1: under every interleaving of create, launch, cancel and poll a job's
\* status changes only along pending->running, running->succeeded,
\* running->failed, running->cancelled or pending->cancelled; a new job is
\* pending, and a succeeded, failed or cancelled job keeps its status.
C1_StatusTransitions ==
  [][\A j \in JobIds :
       /\ (~Present(j) /\ j \in DOMAIN store') => store'[j].snapshot.status = "pending"
       /\ (Present(j) /\ j \in DOMAIN store') =>
            \/ store'[j].snapshot.status = Snapshot(j).status
            \/ <<Snapshot(j).status, store'[j].snapshot.status>> \in StatusSteps]_vars

\* A job that ran, was asked to stop, and ended cancelled, polled afterwards.
C1_Witness ==
  \E j \in JobIds :
    /\ Present(j) /\ Snapshot(j).status = "cancelled"
    /\ Snapshot(j).startedAt # Undefined
    /\ cancels > 0 /\ reply.op = "GET" /\ reply.job = Some(Snapshot(j))

\* C2: a job that was cancelled while running never succeeds and never
\* carries a result, and once its task has ended its status is cancelled,
\* whatever the external call returned.
C2_CancelWinsOverLateSuccess ==
  \A j \in JobIds :
    (Present(j) /\ CancelledWhile(j, {"fetch", "body"})) =>
      /\ Snapshot(j).status \in {"running", "cancelled"}
      /\ Snapshot(j).result = Undefined
      /\ task[j].pc = "done" => Snapshot(j).status = "cancelled"

\* Cancelled while running, and the last attempt still produced a valid plan.
C2_Witness ==
  \E j \in JobIds :
    /\ Present(j) /\ CancelledWhile(j, {"fetch", "body"})
    /\ task[j].pc = "done" /\ Snapshot(j).status = "cancelled"
    /\ hist[j] # <<>> /\ hist[j][Len(hist[j])].end = "ok"

\* C3 as stated: a cancel of a pending or running job sets its status to
\* cancelled and stamps finishedAt in that step, returns that snapshot, and
\* aborts the attached controller.
C3_CancelFlipsPendingAndRunning ==
  [][\A j \in JobIds :
       (DELETE(j) /\ Present(j) /\ Snapshot(j).status \in {"pending", "running"}) =>
         /\ store'[j].snapshot.status = "cancelled"
         /\ store'[j].snapshot.finishedAt # Undefined
         /\ reply'.job = Some(store'[j].snapshot)
         /\ store[j].controller => task'[j].aborted]_vars

\* C3 amended: a cancel of a pending job sets its status to cancelled and
\* stamps finishedAt in that step; a cancel of a running job sets
\* cancelRequested, leaves the status running and finishedAt unset, and
\* aborts and detaches the attached controller; in both cases the returned
\* snapshot is the stored one.
C3_CancelFlipsPendingMarksRunning ==
  [][\A j \in JobIds :
       (DELETE(j) /\ Present(j) /\ Snapshot(j).status \in {"pending", "running"}) =>
         /\ store'[j].snapshot.cancelRequested
         /\ reply'.job = Some(store'[j].snapshot)
         /\ ~store'[j].controller
         /\ store[j].controller => task'[j].aborted
         /\ Snapshot(j).status = "pending" =>
              /\ store'[j].snapshot.status = "cancelled"
              /\ store'[j].snapshot.finishedAt = Some(clock)
         /\ Snapshot(j).status = "running" =>
              /\ store'[j].snapshot.status = "running"
              /\ store'[j].snapshot.finishedAt = Undefined]_vars

\* The reply to a cancel of a running job: still running, abort signalled.
C3_Witness ==
  \E j \in JobIds :
    /\ reply.op = "DELETE" /\ reply.job # Undefined
    /\ reply.job[1].status = "running" /\ reply.job[1].cancelRequested
    /\ task[j].aborted /\ Present(j) /\ ~store[j].controller

C5_CancelWhilePendingSkipsCall ==
  \A j \in JobIds :
    (Present(j) /\ CancelledWhile(j, {"created"})) =>
      /\ Snapshot(j).status = "cancelled"
      /\ Snapshot(j).startedAt = Undefined
      /\ sent[j] = 0
      /\ task[j].pc \in {"created", "done"}

\* Cancelled while pending, and the start step has run.
C5_Witness ==
  \E j \in JobIds :
    /\ Present(j) /\ CancelledWhile(j, {"created"})
    /\ task[j].pc = "done" /\ Snapshot(j).status = "cancelled"

LastAttempt(j) == hist[j][Len(hist[j])]

\* C6 as stated: at most 2 requests are sent for a job, and the second one
\* only when the first attempt ended in a retryable failure of the content
\* (unparsable content, invalid or empty plan), never after an HTTP error
\* status, a network failure, a timeout or an abort on the first attempt.
C6_SecondRequestOnlyAfterContentFailure ==
  \A j \in JobIds :
    /\ sent[j] <= MAX_AI_ATTEMPTS
    /\ sent[j] = 2 => hist[j][1].end = "content"

\* C7: when the cancel is requested after the response of the first attempt
\* arrived and before a second request is sent, no second request is sent
\* and the job ends cancelled.
C7_CancelAtRetryBoundary ==
  \A j \in JobIds :
    (Present(j) /\ cancelAt[j] = Some([pc |-> "body", attempt |-> 0])) =>
      /\ sent[j] = 1
      /\ task[j].pc \in {"body", "done"}
      /\ task[j].pc = "done" => Snapshot(j).status = "cancelled"

\* Cancelled while the first body was read, the first attempt then failed in
\* a retryable way, and the task ended without a second request.
C7_Witness ==
  \E j \in JobIds :
    /\ Present(j) /\ cancelAt[j] = Some([pc |-> "body", attempt |-> 0])
    /\ task[j].pc = "done" /\ Len(hist[j]) = 1
    /\ hist[j][1].end = "content" /\ hist[j][1].message = Some(MsgNoGroups)
    /\ Snapshot(j).status = "cancelled" /\ sent[j] = 1

\* C8: the error of a failed job is the message of the last attempt made:
\* of the second attempt when the first failed in a retryable way, of the
\* first when that one failed terminally.
C8_ErrorIsLastAttemptMessage ==
  \A j \in JobIds :
    (Present(j) /\ Snapshot(j).status = "failed") =>
      /\ hist[j] # <<>>
      /\ Len(hist[j]) = sent[j]
      /\ Snapshot(j).error # Undefined
      /\ Snapshot(j).error = LastAttempt(j).message

\* A job that failed after two attempts with different messages.
C8_Witness ==
  \E j \in JobIds :
    /\ Present(j) /\ Snapshot(j).status = "failed"
    /\ Len(hist[j]) = 2
    /\ hist[j][1].message # hist[j][2].message
    /\ Snapshot(j).error = hist[j][2].message

\* C9: when the task ends on an error of the request, whether an abort or
\* any other error, while cancelRequested is true, the job becomes cancelled
\* and has no error; it does not become failed.
C9_CancelSuppressesErrors ==
  [][\A j \in JobIds :
       (/\ Present(j) /\ Snapshot(j).cancelRequested
        /\ task[j].pc \in {"fetch", "body"} /\ task'[j].pc = "done"
        /\ hist'[j][Len(hist'[j])].end # "ok") =>
         /\ store'[j].snapshot.status = "cancelled"
         /\ store'[j].snapshot.error = Undefined
         /\ store'[j].snapshot.result = Undefined]_vars

\* Cancelled while running, and the request then ended on an error that is
\* not an abort.
C9_Witness ==
  \E j \in JobIds :
    /\ Present(j) /\ CancelledWhile(j, {"fetch", "body"})
    /\ task[j].pc = "done" /\ hist[j] # <<>>
    /\ LastAttempt(j).end \in {"network", "http", "timeout"}
    /\ Snapshot(j).status = "cancelled" /\ Snapshot(j).error = Undefined

MaxPlanRefs == 2
MaxPlanGroups == 1

SubmittedIds == {{<<"2">>}, {<<"1">>, <<"2">>}}

PlanRawRefs == {RawRef(<<"1">>), RawRef(<<" ", "1">>), RawRef(<<" ">>)}

PlanRawGroups ==
  {RawGroup(name, refs) : name \in RawNames, refs \in SeqsUpTo(PlanRawRefs, MaxPlanRefs)}
    \cup {NonObject}

\* n acceptable groups in a row, and the lengths of such runs in a response:
\* none, one short of the cap, one more than the cap.
Filler(n) == [i \in 1..n |-> RawGroup(<<"F">>, <<RawRef(<<"1">>)>>)]

FillerLengths == {0, MAX_GROUPS - 1, MAX_GROUPS + 1}

LastGroups == {<<>>, <<RawGroup(<<"E">>, <<RawRef(<<"2">>)>>)>>}

PlanResponses ==
  {first \o Filler(n) \o last :
     first \in SeqsUpTo(PlanRawGroups, MaxPlanGroups), n \in FillerLengths,
     last \in LastGroups}

PlanContents ==
  {[kind |-> "text"], [kind |-> "scalar"], [kind |-> "object", groups |-> Undefined]}
    \cup {[kind |-> "object", groups |-> Some(gs)] : gs \in PlanResponses}

PlanInit ==
  /\ NoJobs
  /\ call \in {[op |-> "normalizePlan", submitted |-> ids, content |-> c,
                returned |-> Undefined] : ids \in SubmittedIds, c \in PlanContents}

\* generateAiPlan validates the content of the response.
ValidatePlan ==
  /\ call.op = "normalizePlan"
  /\ call.returned = Undefined
  /\ call' = [call EXCEPT !.returned = Some(normalizePlan(call.content))]
  /\ UNCHANGED jobVars

PlanNext == ValidatePlan

PlanSpec == PlanInit /\ [][PlanNext]_vars

\* The plan normalizePlan returned, if it returned one.
Validated == call.op = "normalizePlan" /\ call.returned # Undefined /\ call.returned[1].ok

ValidatedGroups == call.returned[1].value.groups

\* C11: every bookmark id of a plan that validation returned (the plan a
\* succeeded job stores) is the id of a submitted bookmark; so a group whose
\* references are all unknown ids is not kept and a response that references
\* only unknown ids is not returned as a plan.
C11_PlanIdsWereSubmitted ==
  Validated =>
    \A g \in 1..Len(ValidatedGroups) :
      \A b \in 1..Len(ValidatedGroups[g].bookmarks) :
        ValidatedGroups[g].bookmarks[b].id \in call.submitted

\* The response's groups as sent, and the places of those validation accepts:
\* objects with a name and a reference whose id have a non-blank character.
ResponseGroups ==
  IF call.content.kind = "object" /\ call.content.groups # Undefined
  THEN call.content.groups[1] ELSE <<>>

AcceptablePlaces == {i \in 1..Len(ResponseGroups) : UsableGroup(ResponseGroups[i])}

\* The k-th of a set of places, in response order.
KthAcceptable(places, k) ==
  CHOOSE i \in places : Cardinality({j \in places : j <= i}) = k

\* out is raw without its leading and trailing blanks, and is not empty.
IsTrimOf(out, raw) ==
  /\ out # <<>>
  /\ out[1] # " " /\ out[Len(out)] # " "
  /\ \E a \in 1..Len(raw) :
       /\ a + Len(out) - 1 <= Len(raw)
       /\ out = SubSeq(raw, a, a + Len(out) - 1)
       /\ \A i \in 1..Len(raw) : (i < a \/ i > a + Len(out) - 1) => raw[i] = " "

\* C12: a validated plan has at most MAX_GROUPS (12) groups, and they are the
\* first 12 acceptable groups of the response in response order; every kept
\* group has a non-empty trimmed name, at least one bookmark and no bookmark
\* id twice.
C12_FirstTwelveAcceptableGroups ==
  Validated =>
    LET places == AcceptablePlaces
        response == ResponseGroups
        groups == ValidatedGroups
    IN /\ Len(groups) <= 12
       /\ Len(groups) = IF Cardinality(places) < 12 THEN Cardinality(places) ELSE 12
       /\ \A k \in 1..Len(groups) :
            LET kept == groups[k]
                sent_ == response[KthAcceptable(places, k)]
            IN /\ IsTrimOf(kept.name, sent_.name[1])
               /\ Len(kept.bookmarks) >= 1
               /\ \A a, b \in 1..Len(kept.bookmarks) :
                    a # b => kept.bookmarks[a].id # kept.bookmarks[b].id
               /\ \A a \in 1..Len(kept.bookmarks) :
                    \E r \in 1..Len(sent_.bookmarks[1]) :
                      IsTrimOf(kept.bookmarks[a].id, sent_.bookmarks[1][r].id[1])

\* A response with more than 12 acceptable groups after a group that is not
\* acceptable: the plan has 12 groups.
C12_Witness ==
  /\ Validated
  /\ Cardinality(AcceptablePlaces) > 12
  /\ 1 \notin AcceptablePlaces
  /\ Len(ValidatedGroups) = 12

(***************************************************************************)
(* Bookmark trees.  A node is a record with type "folder" or "bookmark",   *)
(* an id and a name (strings, as sequences of characters); a bookmark has  *)
(* a url, a folder has children.  ref is the identity of the object: two   *)
(* nodes are the same object (=== in the program) iff their refs are       *)
(* equal, and an object built from another by {...node, ...} gets a new    *)
(* ref: that of the other with one more copy.                              *)
(***************************************************************************)
MaxNodes == 4

IdChars == <<"1", "2", "3", "4", "5", "6", "7", "8", "9">>

\* The identity of the k-th object of an input, and of the object that a
\* spread of the object with identity ref creates.
Object(k) == [object |-> k, copy |-> 0]

Copy(ref) == [ref EXCEPT !.copy = @ + 1]

BookmarkNode(k, name) ==
  [type |-> "bookmark", id |-> <<"n", IdChars[k]>>, name |-> name,
   url |-> <<"u", IdChars[k]>>, ref |-> Object(k)]

FolderNode(k, name, children) ==
  [type |-> "folder", id |-> <<"n", IdChars[k]>>, name |-> name,
   children |-> children, ref |-> Object(k)]

\* The forests of n nodes and the trees of n nodes, before their nodes are
\* numbered: bookmarks are leaves, folders take their name from names.
RECURSIVE ShapeForests(_, _)
RECURSIVE ShapeTrees(_, _)
ShapeForests(n, names) ==
  IF n = 0 THEN {<<>>}
  ELSE UNION {{<<t>> \o f : t \in ShapeTrees(k, names), f \in ShapeForests(n - k, names)} :
                k \in 1..n}

ShapeTrees(n, names) ==
  (IF n = 1 THEN {[type |-> "bookmark"]} ELSE {})
    \cup {[type |-> "folder", name |-> name, children |-> f] :
            name \in names, f \in ShapeForests(n - 1, names)}

\* Numbers the nodes of a shape in document order from next on: ids and refs
\* are unique, as the ids the importer generates are.
RECURSIVE NumberNode(_, _)
RECURSIVE NumberChildren(_, _, _)
NumberNode(shape, next) ==
  IF shape.type = "bookmark"
  THEN [node |-> BookmarkNode(next, <<"A">>), next |-> next + 1]
  ELSE LET kids == NumberChildren(shape.children, next + 1, <<>>)
       IN [node |-> FolderNode(next, shape.name, kids.nodes), next |-> kids.next]

NumberChildren(shapes, next, done) ==
  IF shapes = <<>> THEN [nodes |-> done, next |-> next]
  ELSE LET first == NumberNode(Head(shapes), next)
       IN NumberChildren(Tail(shapes), first.next, Append(done, first.node))

\* The trees with a folder as root and up to size nodes below it.
RootsNamed(names, size) ==
  {NumberNode([type |-> "folder", name |-> <<"R">>, children |-> f], 1).node :
     f \in UNION {ShapeForests(n, names) : n \in 0..size}}

FolderNames == {<<"W">>, <<" ">>}

NamedRoots == RootsNamed(FolderNames, MaxNodes)

\* The nodes of a tree, the tree's root included.
RECURSIVE NodesOf(_)
NodesOf(node) ==
  {node} \cup
    (IF node.type = "folder"
     THEN UNION {NodesOf(node.children[i]) : i \in 1..Len(node.children)}
     ELSE {})

(***************************************************************************)
(* calculateBookmarkStatistics and its helper walk.                        *)
(***************************************************************************)
RECURSIVE walk(_)
RECURSIVE WalkChildren(_, _)
walk(node) ==
  IF node.type = "bookmark" THEN [folders |-> 0, bookmarks |-> 1]
  ELSE WalkChildren(node.children, [folders |-> 1, bookmarks |-> 0])

\* The reduce over the children, acc the accumulator.
WalkChildren(children, acc) ==
  IF children = <<>> THEN acc
  ELSE LET child == Head(children)
           childCounts == walk(child)
           foldersIncrement == IF child.type = "folder" THEN 1 ELSE 0
       IN WalkChildren(Tail(children),
            [folders |-> acc.folders + childCounts.folders + foldersIncrement,
             bookmarks |-> acc.bookmarks + childCounts.bookmarks])

Max(a, b) == IF a >= b THEN a ELSE b

\* calculateBookmarkStatistics that counts nothing below the root's children.
calculateBookmarkStatistics_TopLevelOnly(root) ==
  IF root = Undefined \/ root[1].type # "folder"
  THEN [total_folders |-> 0, total_bookmarks |-> 0]
  ELSE [total_folders |->
          Cardinality({i \in 1..Len(root[1].children) : root[1].children[i].type = "folder"}),
        total_bookmarks |->
          Cardinality({i \in 1..Len(root[1].children) : root[1].children[i].type = "bookmark"})]

\* root is the optional argument: Undefined, or Some(node).
calculateBookmarkStatistics(root) ==
  IF root = Undefined \/ root[1].type # "folder"
  THEN [total_folders |-> 0, total_bookmarks |-> 0]
  ELSE LET counts == walk(root[1])
       IN [total_folders |-> Max(counts.folders - 1, 0),
           total_bookmarks |-> counts.bookmarks]

(***************************************************************************)
(* findFolderWithTrail.  A lookup returns NotFound (null) or the folder    *)
(* and the trail of {id, name} items from the root down to it.             *)
(***************************************************************************)
\* The name normalizeFolderName gives a folder whose name is blank.
UnnamedFolder == <<"(unnamed folder)">>

normalizeFolderName(name) ==
  LET trimmed == Trim(name)
  IN IF Len(trimmed) > 0 THEN trimmed ELSE UnnamedFolder

NotFound == [found |-> FALSE]

Found(node, trail) == [found |-> TRUE, node |-> node, trail |-> trail]

RECURSIVE search(_, _, _)
RECURSIVE SearchChildren(_, _, _)
search(node, trail, targetId) ==
  IF node.type # "folder" THEN NotFound
  ELSE LET normalizedName == normalizeFolderName(node.name)
           nextTrail == Append(trail, [id |-> node.id, name |-> normalizedName])
       IN IF node.id = targetId THEN Found(node, nextTrail)
          ELSE SearchChildren(node.children, nextTrail, targetId)

\* The loop over the children of a folder that is not the target.
SearchChildren(children, nextTrail, targetId) ==
  IF children = <<>> THEN NotFound
  ELSE LET child == Head(children)
       IN IF child.type # "folder" THEN SearchChildren(Tail(children), nextTrail, targetId)
          ELSE LET found == search(child, nextTrail, targetId)
               IN IF found.found THEN found
                  ELSE SearchChildren(Tail(children), nextTrail, targetId)

\* findFolderWithTrail that looks at the root's own children only.
findFolderWithTrail_OneLevel(root, targetId) ==
  IF targetId = Undefined \/ targetId[1] = <<>> \/ root.type # "folder" THEN NotFound
  ELSE LET here == <<[id |-> root.id, name |-> normalizeFolderName(root.name)]>>
           hits == {i \in 1..Len(root.children) :
                      root.children[i].type = "folder" /\ root.children[i].id = targetId[1]}
       IN IF root.id = targetId[1] THEN Found(root, here)
          ELSE IF hits = {} THEN NotFound
          ELSE LET child == root.children[CHOOSE i \in hits : \A k \in hits : i <= k]
               IN Found(child, Append(here,
                                 [id |-> child.id, name |-> normalizeFolderName(child.name)]))

\* targetId is the optional argument: Undefined (null or undefined), or
\* Some(string).
findFolderWithTrail(root, targetId) ==
  IF targetId = Undefined \/ targetId[1] = <<>> \/ root.type # "folder" THEN NotFound
  ELSE search(root, <<>>, targetId[1])

(***************************************************************************)
(* collectFolderOptions.  A document is a record around its root; the      *)
(* argument is optional (null), as is the root of TreeSpec.                *)
(***************************************************************************)
Document(root) ==
  [version |-> "1", generated_at |-> "2024-01-01T00:00:00Z", source |-> "upload",
   generator |-> "importer", statistics |-> calculateBookmarkStatistics(Some(root)),
   root |-> root, metadata |-> Some([siteTitle |-> "site", contactEmail |-> "mail"]),
   ref |-> Object(0)]

\* The reduce of line 40 that counts every child, folders too.
DirectBookmarkCount_AllChildren(children) == Len(children)

\* The reduce over the children that counts the bookmarks.
DirectBookmarkCount(children) ==
  Cardinality({i \in 1..Len(children) : children[i].type = "bookmark"})

\* traverse pushes onto options, the list collected so far, and returns it.
RECURSIVE traverse(_, _, _)
RECURSIVE TraverseChildren(_, _, _)
traverse(node, trail, options) ==
  IF node.type # "folder" THEN options
  ELSE LET normalizedName == normalizeFolderName(node.name)
           currentItem == [id |-> node.id, name |-> normalizedName]
           nextTrail == Append(trail, currentItem)
       IN TraverseChildren(node.children, nextTrail,
            Append(options,
              [id |-> node.id, name |-> normalizedName, depth |-> Len(nextTrail) - 1,
               trail |-> nextTrail,
               directBookmarkCount |-> DirectBookmarkCount(node.children)]))

\* The loop over the children that follows the push.
TraverseChildren(children, nextTrail, options) ==
  IF children = <<>> THEN options
  ELSE TraverseChildren(Tail(children), nextTrail,
         IF Head(children).type = "folder"
         THEN traverse(Head(children), nextTrail, options) ELSE options)

\* document is the optional argument: Undefined (null), or Some(document).
collectFolderOptions(document) ==
  IF document = Undefined \/ document[1].root.type # "folder" THEN <<>>
  ELSE traverse(document[1].root, <<>>, <<>>)

(***************************************************************************)
(* The read-only functions applied to one tree: call holds the root handed *)
(* to calculateBookmarkStatistics (none, a bookmark, or a folder with its  *)
(* tree), the id looked up, and the results once computed; the document   *)
(* handed to collectFolderOptions is none or the document around the root. *)
(***************************************************************************)
StatisticsRoots ==
  {Undefined, Some(BookmarkNode(1, <<"A">>))} \cup {Some(root) : root \in NamedRoots}

\* The ids looked up in a tree: the id of each node, an id of no node, the
\* empty string and no id.
MissingId == <<"n", "0">>

TargetIds(root) ==
  {Undefined, Some(<<>>), Some(MissingId)}
    \cup (IF root = Undefined THEN {} ELSE {Some(node.id) : node \in NodesOf(root[1])})

TreeInit ==
  /\ NoJobs
  /\ \E root \in StatisticsRoots :
       \E targetId \in TargetIds(root) :
         call = [op |-> "tree", root |-> root, targetId |-> targetId,
                 statistics |-> Undefined, lookup |-> Undefined,
                 options |-> Undefined]

CalculateStatistics ==
  /\ call.op = "tree"
  /\ call.statistics = Undefined
  /\ call' = [call EXCEPT !.statistics = Some(calculateBookmarkStatistics(call.root))]
  /\ UNCHANGED jobVars

FindFolder ==
  /\ call.op = "tree"
  /\ call.root # Undefined
  /\ call.lookup = Undefined
  /\ call' = [call EXCEPT !.lookup = Some(findFolderWithTrail(call.root[1], call.targetId))]
  /\ UNCHANGED jobVars

CollectFolderOptions ==
  /\ call.op = "tree"
  /\ call.options = Undefined
  /\ call' = [call EXCEPT !.options =
                 Some(collectFolderOptions(
                        IF call.root = Undefined THEN Undefined
                        ELSE Some(Document(call.root[1]))))]
  /\ UNCHANGED jobVars

TreeNext == CalculateStatistics \/ FindFolder \/ CollectFolderOptions

TreeSpec == TreeInit /\ [][TreeNext]_vars

\* The nodes of one type in the tree handed in, its root included.
NodesOfType(type) == {node \in NodesOf(call.root[1]) : node.type = type}

Counted == call.op = "tree" /\ call.statistics # Undefined

FolderRoot == call.root # Undefined /\ call.root[1].type = "folder"

\* C14: for a tree rooted at a folder, total_bookmarks is the number of
\* bookmark nodes anywhere in the tree; for a missing root or a root that is
\* not a folder both counters are 0.
C14_TotalBookmarksCountsAllBookmarks ==
  Counted =>
    IF FolderRoot
    THEN call.statistics[1].total_bookmarks = Cardinality(NodesOfType("bookmark"))
    ELSE call.statistics[1] = [total_folders |-> 0, total_bookmarks |-> 0]

\* Bookmarks at two depths of the tree were counted.
C14_Witness ==
  /\ Counted /\ FolderRoot
  /\ call.statistics[1].total_bookmarks >= 2
  /\ \E i \in 1..Len(call.root[1].children) : call.root[1].children[i].type = "bookmark"
  /\ \E i \in 1..Len(call.root[1].children) :
       /\ call.root[1].children[i].type = "folder"
       /\ \E k \in 1..Len(call.root[1].children[i].children) :
            call.root[1].children[i].children[k].type = "bookmark"

\* C15: for a tree rooted at a folder, total_folders is the number of folder
\* nodes other than the root, each nested folder counted once.
C15_TotalFoldersCountsEachFolderOnce ==
  (Counted /\ FolderRoot) =>
    call.statistics[1].total_folders = Cardinality(NodesOfType("folder")) - 1

\* The chains of folders that start at node and go down from parent to child.
RECURSIVE FolderChains(_)
FolderChains(node) ==
  IF node.type # "folder" THEN {}
  ELSE {<<node>>} \cup
       UNION {{<<node>> \o chain : chain \in FolderChains(node.children[i])} :
                i \in 1..Len(node.children)}

LookedUp == call.op = "tree" /\ call.lookup # Undefined

\* C20: the lookup of the id of a folder F of the tree returns F itself and
\* the trail of the folders from the root down to F, one item per folder with
\* the folder's id and its (display) name, so that the last id is F's and the
\* length is depth(F)+1; the lookup of an id that only a bookmark has, or
\* that no node has, returns null.
C20_TrailLeadsFromRootToFolder ==
  LookedUp =>
    LET root == call.root[1]
        result == call.lookup[1]
        chains == {chain \in FolderChains(root) :
                     call.targetId # Undefined /\ chain[Len(chain)].id = call.targetId[1]}
    IN IF chains = {} THEN ~result.found
       ELSE /\ result.found
            /\ \E chain \in chains :
                 /\ result.node = chain[Len(chain)]
                 /\ Len(result.trail) = Len(chain)
                 /\ result.trail[Len(result.trail)].id = call.targetId[1]
                 /\ \A i \in 1..Len(chain) :
                      /\ result.trail[i].id = chain[i].id
                      /\ \/ IsTrimOf(result.trail[i].name, chain[i].name)
                         \/ /\ \A k \in 1..Len(chain[i].name) : chain[i].name[k] = " "
                            /\ result.trail[i].name = UnnamedFolder

\* A folder two levels below the root was found, next to a sibling that is
\* not on the way to it.
C20_Witness ==
  /\ LookedUp
  /\ call.lookup[1].found
  /\ Len(call.lookup[1].trail) = 3
  /\ Len(call.root[1].children) >= 2

\* The paths (child places, from the root down) of the folders of a tree that
\* hang under folders only, and the node at the end of a path.
RECURSIVE FolderPaths(_)
FolderPaths(node) ==
  IF node.type # "folder" THEN {}
  ELSE {<<>>} \cup
       UNION {{<<i>> \o path : path \in FolderPaths(node.children[i])} :
                i \in 1..Len(node.children)}

RECURSIVE NodeAt(_, _)
NodeAt(node, path) ==
  IF path = <<>> THEN node ELSE NodeAt(node.children[Head(path)], Tail(path))

\* Pre-order: p comes before q if p is an ancestor of q, or if p branches off
\* to an earlier child where the two part.
PathBefore(p, q) ==
  \E i \in 1..Len(q) :
    /\ i <= Len(p) + 1
    /\ \A j \in 1..(i - 1) : p[j] = q[j]
    /\ (i = Len(p) + 1 \/ p[i] < q[i])

Collected == call.op = "tree" /\ call.options # Undefined

\* C21: the options of a document rooted at a folder list every folder of
\* the tree, the root included, exactly once and in pre-order (a folder
\* before its descendants, siblings in child order); each option has the id
\* and display name of its folder, the trail of the folders from the root
\* down to it (so the trail ends at the folder), depth = trail length - 1,
\* and directBookmarkCount = the number of its direct children that are
\* bookmarks.  Without a document, or with a root that is no folder, the list
\* is empty.
C21_OptionsListFoldersInPreOrder ==
  Collected =>
    LET options == call.options[1]
    IN IF ~FolderRoot THEN options = <<>>
       ELSE LET root == call.root[1]
                paths == FolderPaths(root)
            IN /\ Len(options) = Cardinality(paths)
               /\ \A p \in paths :
                    LET place == 1 + Cardinality({q \in paths : PathBefore(q, p)})
                        option == options[place]
                        folder == NodeAt(root, p)
                    IN /\ option.id = folder.id
                       /\ option.name = normalizeFolderName(folder.name)
                       /\ option.depth = Len(option.trail) - 1
                       /\ option.depth = Len(p)
                       /\ \A k \in 1..Len(option.trail) :
                            LET above == NodeAt(root, SubSeq(p, 1, k - 1))
                            IN option.trail[k] =
                                 [id |-> above.id, name |-> normalizeFolderName(above.name)]
                       /\ option.directBookmarkCount =
                            Cardinality({i \in 1..Len(folder.children) :
                                           folder.children[i].type = "bookmark"})

\* A root with a bookmark and two folders, one of them with a folder inside:
\* the option of the nested folder is followed by that of its parent's
\* sibling.
C21_Witness ==
  /\ Collected /\ FolderRoot
  /\ Len(call.root[1].children) = 3
  /\ call.options[1][1].directBookmarkCount = 1
  /\ \E k \in 1..(Len(call.options[1]) - 1) :
       call.options[1][k].depth = 2 /\ call.options[1][k + 1].depth = 1

(***************************************************************************)
(* The mutators of the viewer: reorder, rename-bookmark, rename-folder.    *)
(* A document carries its own identity (ref) like a node.                  *)
(***************************************************************************)
Min(a, b) == IF a <= b THEN a ELSE b

\* bookmarkMap.get(id) ?? child: bookmarkMap is built from the [id, bookmark]
\* pairs of bookmarks, a later pair replacing an earlier one with the same id.
MapGet(bookmarks, id, child) ==
  LET hits == {i \in 1..Len(bookmarks) : bookmarks[i].id = id}
  IN IF hits = {} THEN child
     ELSE bookmarks[CHOOSE i \in hits : \A k \in hits : k <= i]

IsBookmark(child) == child.type = "bookmark"

\* Indexes are those of the program, from 0.
reorderWithinFolder(folder, sourceBookmarkId, targetIndex) ==
  LET children == folder.children
      bookmarkChildren == SelectSeq(children, IsBookmark)
      hits == {i \in 1..Len(bookmarkChildren) : bookmarkChildren[i].id = sourceBookmarkId}
      sourceIndex == IF hits = {} THEN -1
                     ELSE (CHOOSE i \in hits : \A k \in hits : i <= k) - 1
      clampedTargetIndex == Max(0, Min(targetIndex, Len(bookmarkChildren)))
      moving == bookmarkChildren[sourceIndex + 1]
      removed == SubSeq(bookmarkChildren, 1, sourceIndex)
                   \o SubSeq(bookmarkChildren, sourceIndex + 2, Len(bookmarkChildren))
      insertionIndex == IF sourceIndex < clampedTargetIndex
                        THEN clampedTargetIndex - 1 ELSE clampedTargetIndex
      nextBookmarks == SubSeq(removed, 1, insertionIndex) \o <<moving>>
                         \o SubSeq(removed, insertionIndex + 1, Len(removed))
      isIdentical == \A index \in 1..Len(bookmarkChildren) :
                       bookmarkChildren[index].id = nextBookmarks[index].id
      reorderedChildren ==
        [i \in 1..Len(children) |->
           IF children[i].type = "bookmark"
           THEN MapGet(nextBookmarks, children[i].id, children[i])
           ELSE children[i]]
  IN IF sourceIndex = -1 THEN folder
     ELSE IF isIdentical THEN folder
     ELSE [folder EXCEPT !.children = reorderedChildren, !.ref = Copy(@)]

RECURSIVE reorderWithinNode(_, _, _, _)
reorderWithinNode(node, folderId, sourceBookmarkId, targetIndex) ==
  IF node.type # "folder" THEN node
  ELSE IF node.id = folderId
  THEN reorderWithinFolder(node, sourceBookmarkId, targetIndex)
  ELSE LET nextChildren ==
             [i \in 1..Len(node.children) |->
                IF node.children[i].type # "folder" THEN node.children[i]
                ELSE reorderWithinNode(node.children[i], folderId, sourceBookmarkId,
                                       targetIndex)]
           changed == \E i \in 1..Len(node.children) :
                        nextChildren[i].ref # node.children[i].ref
       IN IF ~changed THEN node
          ELSE [node EXCEPT !.children = nextChildren, !.ref = Copy(@)]

\* cloneBookmarkNode: a copy of the node and of every node below it.
RECURSIVE cloneBookmarkNode(_)
cloneBookmarkNode(node) ==
  IF node.type # "folder" THEN [node EXCEPT !.ref = Copy(@)]
  ELSE [node EXCEPT !.ref = Copy(@),
                    !.children = [i \in 1..Len(node.children) |->
                                    cloneBookmarkNode(node.children[i])]]

\* reorderDocument that returns a new document whatever the root is.
reorderDocument_AlwaysCopies(document, folderId, sourceBookmarkId, targetIndex) ==
  [document EXCEPT
     !.root = reorderWithinNode(document.root, folderId, sourceBookmarkId, targetIndex),
     !.ref = Copy(@)]

\* reorderDocument that returns a clone of the whole updated tree.
reorderDocument_ClonesTree(document, folderId, sourceBookmarkId, targetIndex) ==
  LET updatedRoot == reorderWithinNode(document.root, folderId, sourceBookmarkId,
                                       targetIndex)
  IN IF updatedRoot.ref = document.root.ref THEN document
     ELSE [document EXCEPT !.root = cloneBookmarkNode(updatedRoot), !.ref = Copy(@)]

reorderDocument(document, folderId, sourceBookmarkId, targetIndex) ==
  LET updatedRoot == reorderWithinNode(document.root, folderId, sourceBookmarkId,
                                       targetIndex)
  IN IF updatedRoot.ref = document.root.ref THEN document
     ELSE [document EXCEPT !.root = updatedRoot, !.ref = Copy(@)]

RECURSIVE renameBookmarkInNode(_, _, _)
renameBookmarkInNode(node, bookmarkId, nextName) ==
  IF node.type # "folder" THEN node
  ELSE LET nextChildren ==
             [i \in 1..Len(node.children) |->
                LET child == node.children[i]
                IN IF child.type = "bookmark"
                   THEN IF child.id = bookmarkId
                        THEN IF child.name = nextName THEN child
                             ELSE [child EXCEPT !.name = nextName, !.ref = Copy(@)]
                        ELSE child
                   ELSE renameBookmarkInNode(child, bookmarkId, nextName)]
           changed == \E i \in 1..Len(node.children) :
                        nextChildren[i].ref # node.children[i].ref
       IN IF ~changed THEN node
          ELSE [node EXCEPT !.children = nextChildren, !.ref = Copy(@)]

renameBookmarkInDocument(document, bookmarkId, nextName) ==
  LET updatedRoot == renameBookmarkInNode(document.root, bookmarkId, nextName)
  IN IF updatedRoot.ref = document.root.ref THEN document
     ELSE [document EXCEPT !.root = updatedRoot, !.ref = Copy(@)]

RECURSIVE renameFolderInNode(_, _, _)
renameFolderInNode(node, folderId, nextName) ==
  IF node.type # "folder" THEN node
  ELSE LET existingChildren == node.children
           nextChildren ==
             [i \in 1..Len(existingChildren) |->
                IF existingChildren[i].type # "folder" THEN existingChildren[i]
                ELSE renameFolderInNode(existingChildren[i], folderId, nextName)]
           childrenChanged == \E i \in 1..Len(existingChildren) :
                                nextChildren[i].ref # existingChildren[i].ref
           isTarget == node.id = folderId
           nameChanged == isTarget /\ node.name # nextName
       IN IF ~nameChanged /\ ~childrenChanged THEN node
          ELSE [node EXCEPT !.name = IF nameChanged THEN nextName ELSE node.name,
                            !.children = IF childrenChanged THEN nextChildren
                                         ELSE node.children,
                            !.ref = Copy(@)]

renameFolderInDocument(document, folderId, nextName) ==
  LET updatedRoot == renameFolderInNode(document.root, folderId, nextName)
  IN IF updatedRoot.ref = document.root.ref THEN document
     ELSE [document EXCEPT !.root = updatedRoot, !.ref = Copy(@)]

(***************************************************************************)
(* The mutators applied to one document: call holds the document handed    *)
(* in (before), the arguments (last) and the document returned.  A reorder *)
(* can be applied once more, with the same arguments, to what it returned. *)
(***************************************************************************)
MaxEditNodes == 3

EditRoots == RootsNamed({<<"W">>}, MaxEditNodes)

\* The ids handed to a mutator: the ids that the nodes of these trees have
\* and an id of no node.
EditIds == {<<"n", IdChars[k]>> : k \in 1..(MaxEditNodes + 1)} \cup {MissingId}

TargetIndexes == (0 - 1)..(MaxEditNodes + 1)

NextNames == {<<"A">>, <<"W">>, <<"B">>}

EditInit ==
  /\ NoJobs
  /\ call \in {[op |-> "edit", document |-> Document(root), before |-> Undefined,
                last |-> [op |-> "none"], repeated |-> FALSE] : root \in EditRoots}

Reorder(folderId, sourceBookmarkId, targetIndex) ==
  /\ call.op = "edit"
  /\ call.last.op = "none"
  /\ call' = [call EXCEPT
       !.before = Some(call.document),
       !.document = reorderDocument(call.document, folderId, sourceBookmarkId, targetIndex),
       !.last = [op |-> "reorder", folderId |-> folderId,
                 sourceBookmarkId |-> sourceBookmarkId, targetIndex |-> targetIndex]]
  /\ UNCHANGED jobVars

ReorderAgain ==
  /\ call.op = "edit"
  /\ call.last.op = "reorder"
  /\ ~call.repeated
  /\ call' = [call EXCEPT
       !.before = Some(call.document),
       !.document = reorderDocument(call.document, call.last.folderId,
                                    call.last.sourceBookmarkId, call.last.targetIndex),
       !.repeated = TRUE]
  /\ UNCHANGED jobVars

RenameBookmark(bookmarkId, nextName) ==
  /\ call.op = "edit"
  /\ call.last.op = "none"
  /\ call' = [call EXCEPT
       !.before = Some(call.document),
       !.document = renameBookmarkInDocument(call.document, bookmarkId, nextName),
       !.last = [op |-> "renameBookmark", bookmarkId |-> bookmarkId,
                 nextName |-> nextName]]
  /\ UNCHANGED jobVars

RenameFolder(folderId, nextName) ==
  /\ call.op = "edit"
  /\ call.last.op = "none"
  /\ call' = [call EXCEPT
       !.before = Some(call.document),
       !.document = renameFolderInDocument(call.document, folderId, nextName),
       !.last = [op |-> "renameFolder", folderId |-> folderId, nextName |-> nextName]]
  /\ UNCHANGED jobVars

EditNext ==
  \/ \E folderId \in EditIds, sourceBookmarkId \in EditIds, targetIndex \in TargetIndexes :
       Reorder(folderId, sourceBookmarkId, targetIndex)
  \/ ReorderAgain
  \/ \E bookmarkId \in EditIds, nextName \in NextNames : RenameBookmark(bookmarkId, nextName)
  \/ \E folderId \in EditIds, nextName \in NextNames : RenameFolder(folderId, nextName)

EditSpec == EditInit /\ [][EditNext]_vars

(***************************************************************************)
(* Properties of the mutators.                                             *)
(***************************************************************************)
Edited == call.op = "edit" /\ call.last.op # "none"

Reordered == call.op = "edit" /\ call.last.op = "reorder"

\* The nodes of a type with an id in a tree.
NodesWith(root, type, id) == {node \in NodesOf(root) : node.type = type /\ node.id = id}

TheNode(root, type, id) == CHOOSE node \in NodesWith(root, type, id) : TRUE

Ids(nodes) == [i \in 1..Len(nodes) |-> nodes[i].id]

BookmarksOf(folder) == SelectSeq(folder.children, IsBookmark)

\* The place, from 1, of the bookmark with an id in a sequence of bookmarks;
\* 0 if there is none.
PlaceOf(bookmarks, id) ==
  IF \E i \in 1..Len(bookmarks) : bookmarks[i].id = id
  THEN CHOOSE i \in 1..Len(bookmarks) : bookmarks[i].id = id
  ELSE 0

\* sequence without its element at place, and with item put in so that at
\* items of the sequence come before it.
Without(sequence, place) ==
  SubSeq(sequence, 1, place - 1) \o SubSeq(sequence, place + 1, Len(sequence))

InsertAfter(sequence, at, item) ==
  SubSeq(sequence, 1, at) \o <<item>> \o SubSeq(sequence, at + 1, Len(sequence))

Clamp(index, length) == IF index < 0 THEN 0 ELSE IF index > length THEN length ELSE index

\* The order a reorder asks for, in two readings of "removed and re-inserted
\* at the clamped target index": the index counted in the sequence as it was
\* before the removal (Moved), or as it is after the removal (MovedNaive).
Moved(bookmarks, id, targetIndex) ==
  LET place == PlaceOf(bookmarks, id)
      clamped == Clamp(targetIndex, Len(bookmarks))
  IN InsertAfter(Without(bookmarks, place),
                 IF place - 1 < clamped THEN clamped - 1 ELSE clamped, bookmarks[place])

MovedNaive(bookmarks, id, targetIndex) ==
  LET place == PlaceOf(bookmarks, id)
      clamped == Clamp(targetIndex, Len(bookmarks))
  IN InsertAfter(Without(bookmarks, place), Clamp(clamped, Len(bookmarks) - 1),
                 bookmarks[place])

\* The reorder was of a folder of the tree and of one of its bookmarks.
ReorderApplies ==
  /\ Reordered
  /\ NodesWith(call.before[1].root, "folder", call.last.folderId) # {}
  /\ PlaceOf(BookmarksOf(TheNode(call.before[1].root, "folder", call.last.folderId)),
             call.last.sourceBookmarkId) > 0

\* C16: after reorder(document, folderId, bookmarkId, targetIndex) on a
\* folder that holds the bookmark, the folder's bookmarks in order are the
\* original bookmarks with the source removed and re-inserted at the clamped
\* target index; every child that is a folder is at its original index; no
\* child is added, lost or duplicated.
C16_ReorderMovesTheBookmark ==
  ReorderApplies =>
    LET was == TheNode(call.before[1].root, "folder", call.last.folderId)
        now == TheNode(call.document.root, "folder", call.last.folderId)
    IN /\ NodesWith(call.document.root, "folder", call.last.folderId) # {}
       /\ Ids(BookmarksOf(now)) \in
            {Ids(Moved(BookmarksOf(was), call.last.sourceBookmarkId, call.last.targetIndex)),
             Ids(MovedNaive(BookmarksOf(was), call.last.sourceBookmarkId,
                            call.last.targetIndex))}
       /\ Len(now.children) = Len(was.children)
       /\ \A i \in 1..Len(was.children) :
            was.children[i].type = "folder" => now.children[i] = was.children[i]
       /\ \A i \in 1..Len(was.children) :
            Cardinality({k \in 1..Len(now.children) : now.children[k] = was.children[i]}) = 1

\* C17: a reorder applied with the same arguments to the document that the
\* first reorder returned returns that very document.
C17_ReorderAgainReturnsSameDocument ==
  (call.op = "edit" /\ call.repeated) => call.document.ref = call.before[1].ref

\* The edit asks for nothing new: the id is of no node of the right type, or
\* the name is the name the node has, or the order is the order the folder's
\* bookmarks have.
NothingToChange ==
  LET root == call.before[1].root
  IN IF call.last.op = "renameBookmark"
     THEN \A node \in NodesWith(root, "bookmark", call.last.bookmarkId) :
            node.name = call.last.nextName
     ELSE IF call.last.op = "renameFolder"
     THEN \A node \in NodesWith(root, "folder", call.last.folderId) :
            node.name = call.last.nextName
     ELSE \/ ~ReorderApplies
          \/ LET bookmarks == BookmarksOf(TheNode(root, "folder", call.last.folderId))
             IN Ids(Moved(bookmarks, call.last.sourceBookmarkId, call.last.targetIndex))
                  = Ids(bookmarks)

\* C18: rename-bookmark and rename-folder return the document they were
\* given when the id is not found or the new name is the current name, and
\* reorder does when the folder id is not found, the bookmark is not among the
\* folder's bookmarks or the computed order is the current order; each of
\* them returns a document (none throws).
C18_NothingToChangeReturnsSameDocument ==
  Edited =>
    /\ call.document.root.type = "folder"
    /\ NothingToChange =>
         /\ call.document.ref = call.before[1].ref
         /\ call.document = call.before[1]

\* A reorder of a bookmark of the folder to an index other than its own that
\* leaves the order as it is returned the same document.
C18_Witness ==
  /\ ReorderApplies
  /\ ~call.repeated
  /\ NothingToChange
  /\ call.last.targetIndex >= 0
  /\ call.last.targetIndex + 1 #
       PlaceOf(BookmarksOf(TheNode(call.before[1].root, "folder", call.last.folderId)),
               call.last.sourceBookmarkId)
  /\ call.document.ref = call.before[1].ref

\* The chain of folders from the root to the node that the edit is about, if
\* the tree has it; with the node itself if it is a bookmark.
EditedPath ==
  LET root == call.before[1].root
      target == IF call.last.op = "renameBookmark" THEN call.last.bookmarkId
                ELSE call.last.folderId
  IN {node \in NodesOf(root) :
        \E chain \in FolderChains(root) :
          /\ \E i \in 1..Len(chain) : chain[i] = node
          /\ LET last_ == chain[Len(chain)]
             IN IF call.last.op = "renameBookmark"
                THEN \E k \in 1..Len(last_.children) :
                       last_.children[k].type = "bookmark" /\ last_.children[k].id = target
                ELSE last_.id = target}
    \cup (IF call.last.op = "renameBookmark" THEN NodesWith(root, "bookmark", target)
          ELSE {})

DocumentFields == {"version", "generated_at", "source", "generator", "statistics", "metadata"}

\* C19: a reorder or rename returns a document with the statistics, version,
\* source, generator and metadata of the document it was given, and every
\* node of the given tree that is not on the path from the root to the node
\* the edit is about is, with all below it, the same object in the result;
\* the given document is as it was.
C19_CopyOnWrite ==
  Edited =>
    /\ \A field \in DocumentFields : call.document[field] = call.before[1][field]
    /\ \A node \in NodesOf(call.before[1].root) :
         node \notin EditedPath => node \in NodesOf(call.document.root)
    /\ call.document.ref # call.before[1].ref =>
         /\ call.before[1].ref.copy < call.document.ref.copy
         /\ \A node \in NodesOf(call.document.root) :
              node \notin NodesOf(call.before[1].root) =>
                \E old \in EditedPath : old.id = node.id /\ old.ref # node.ref

\* A bookmark of a folder below the root was renamed; the folder has a
\* sibling, which is off the path.
C19_Witness ==
  /\ Edited
  /\ call.last.op = "renameBookmark"
  /\ call.document.ref # call.before[1].ref
  /\ Len(call.before[1].root.children) >= 2
  /\ \E node \in EditedPath : node.type = "folder" /\ node.id # call.before[1].root.id

(***************************************************************************)
(* Applying the plan of a succeeded job in the viewer:                     *)
(* buildFolderFromAiPlan and the effect that appends the folder it built   *)
(* to the root.  matches are the bookmarks that were submitted.            *)
(***************************************************************************)
MaxMatches == 2
MaxApplyGroups == 2

\* The title cleanBookmarkTitle gives a bookmark whose name is blank, the
\* names of fallbackGroupNames (the first is the name of the group that is
\* synthesized), and the title of the new folder when the plan has none.
UnnamedPage == <<"(unnamed page)">>

OtherFavorites == <<"(other favorites)">>

FallbackGroupNames ==
  {OtherFavorites, <<"(ungrouped)">>, <<"O", "t", "h", "e", "r", "s">>,
   <<"(other favorites, variant)">>, <<"M", "i", "s", "c">>}

GeneratedFolderTitle == <<"(AI organize, strategy, date)">>

\* The n-th id that generateNodeId returns, and the identity of the n-th
\* object that buildFolderFromAiPlan creates.
generateNodeId(n) == [i \in 1..n |-> "x"]

NewObject(n) == [object |-> 0 - n, copy |-> 0]

RECURSIVE CollapseWhitespace(_)
CollapseWhitespace(s) ==
  IF s = <<>> THEN <<>>
  ELSE IF IsWhitespace(Head(s)) THEN <<" ">> \o CollapseWhitespace(TrimStart(s))
  ELSE <<Head(s)>> \o CollapseWhitespace(Tail(s))

cleanBookmarkTitle(name) ==
  LET trimmed == Trim(name)
  IN IF trimmed = <<>> THEN UnnamedPage ELSE CollapseWhitespace(trimmed)

cloneBookmark(source, nextName, id) ==
  [source EXCEPT !.id = id, !.name = nextName, !.ref = Copy(@)]

\* a.localeCompare(b, 'zh-CN') < 0 for the names of the model: character by
\* character, a blank before the letters in alphabetical order before any
\* other character, a prefix before the longer name.
CharRank(ch) ==
  IF ch = " " THEN 0
  ELSE IF ch \in {"A", "B", "C", "Z"}
  THEN CHOOSE r \in 1..4 : <<"A", "B", "C", "Z">>[r] = ch
  ELSE 5

RECURSIVE LocaleLess(_, _)
LocaleLess(a, b) ==
  IF b = <<>> THEN FALSE
  ELSE IF a = <<>> THEN TRUE
  ELSE IF CharRank(Head(a)) # CharRank(Head(b)) THEN CharRank(Head(a)) < CharRank(Head(b))
  ELSE LocaleLess(Tail(a), Tail(b))

\* nodes.sort((a, b) => a.name.localeCompare(b.name, 'zh-CN')): a stable sort.
RECURSIVE SortByName(_)
SortByName(nodes) ==
  IF nodes = <<>> THEN <<>>
  ELSE LET sorted == SortByName(SubSeq(nodes, 1, Len(nodes) - 1))
           node == nodes[Len(nodes)]
           before == Cardinality({i \in 1..Len(sorted) : ~LocaleLess(node.name, sorted[i].name)})
       IN SubSeq(sorted, 1, before) \o <<node>> \o SubSeq(sorted, before + 1, Len(sorted))

\* bookmarkMap.get(id): the map is built from the matches, a later match
\* replacing an earlier one with the same id.
MatchWith(matches, id) ==
  LET hits == {i \in 1..Len(matches) : matches[i].id = id}
  IN IF hits = {} THEN Undefined
     ELSE Some(matches[CHOOSE i \in hits : \A k \in hits : k <= i])

\* The loop over the references of one group.  acc holds usedIds, the
\* bookmarkNodes of the group and the number of ids generated so far.
RECURSIVE ClaimBookmarks(_, _, _)
ClaimBookmarks(bookmarksInput, matches, acc) ==
  IF bookmarksInput = <<>> THEN acc
  ELSE LET bookmarkRaw == Head(bookmarksInput)
           bookmarkId == Trim(bookmarkRaw.id)
           original == MatchWith(matches, bookmarkId)
           suggestedName == IF bookmarkRaw.newName # Undefined
                            THEN Trim(bookmarkRaw.newName[1]) ELSE <<>>
           finalName == IF suggestedName # <<>> THEN suggestedName
                        ELSE cleanBookmarkTitle(original[1].name)
       IN IF bookmarkId = <<>> THEN ClaimBookmarks(Tail(bookmarksInput), matches, acc)
          ELSE IF original = Undefined \/ original[1].id \in acc.usedIds
          THEN ClaimBookmarks(Tail(bookmarksInput), matches, acc)
          ELSE ClaimBookmarks(Tail(bookmarksInput), matches,
                 [usedIds |-> acc.usedIds \cup {original[1].id},
                  bookmarkNodes |-> Append(acc.bookmarkNodes,
                     cloneBookmark(original[1], finalName, generateNodeId(acc.made + 1))),
                  made |-> acc.made + 1])

\* The end of the loop body for one group with a name: the group is kept if
\* it claimed a bookmark.  claimed is what the loop over its references left.
KeepGroup(acc, groupName, claimed) ==
  IF Len(claimed.bookmarkNodes) = 0 THEN acc
  ELSE [usedIds |-> claimed.usedIds,
        groupNodes |-> Append(acc.groupNodes,
                         [type |-> "folder", id |-> generateNodeId(claimed.made + 1),
                          name |-> groupName,
                          children |-> SortByName(claimed.bookmarkNodes),
                          ref |-> NewObject(claimed.made + 1)]),
        fallbackIndex |->
          IF acc.fallbackIndex = Undefined /\ groupName \in FallbackGroupNames
          THEN Some(Len(acc.groupNodes)) ELSE acc.fallbackIndex,
        made |-> claimed.made + 1]

\* The loop over the groups of the plan.  acc holds usedIds, groupNodes,
\* fallbackIndex (from 0) and the number of ids generated so far.
RECURSIVE BuildGroups(_, _, _)
BuildGroups(groupsInput, matches, acc) ==
  IF groupsInput = <<>> THEN acc
  ELSE LET group == Head(groupsInput)
           groupName == Trim(group.name)
       IN BuildGroups(Tail(groupsInput), matches,
            IF groupName = <<>> THEN acc
            ELSE KeepGroup(acc, groupName,
                   ClaimBookmarks(group.bookmarks, matches,
                     [usedIds |-> acc.usedIds, bookmarkNodes |-> <<>>,
                      made |-> acc.made])))

\* The loop over the matches that builds leftoverNodes.
RECURSIVE Leftovers(_, _, _)
Leftovers(eligibleMatches, usedIds, acc) ==
  IF eligibleMatches = <<>> THEN acc
  ELSE LET match == Head(eligibleMatches)
       IN IF match.id \in usedIds \cup acc.usedIds
          THEN Leftovers(Tail(eligibleMatches), usedIds, acc)
          ELSE Leftovers(Tail(eligibleMatches), usedIds,
                 [usedIds |-> acc.usedIds \cup {match.id},
                  leftoverNodes |-> Append(acc.leftoverNodes,
                     cloneBookmark(match, cleanBookmarkTitle(match.name),
                                   generateNodeId(acc.made + 1))),
                  made |-> acc.made + 1])

\* The groups after the pass over the unclaimed bookmarks: left is what the
\* loop over the eligible matches, eligibleCount of them, left.
WithLeftovers(built, left, eligibleCount) ==
  IF Cardinality(built.usedIds) < eligibleCount /\ Len(left.leftoverNodes) > 0
  THEN IF built.fallbackIndex # Undefined
       THEN [groupNodes |->
               [built.groupNodes EXCEPT ![built.fallbackIndex[1] + 1] =
                  [@ EXCEPT !.children = SortByName(@ \o SortByName(left.leftoverNodes)),
                            !.ref = Copy(@)]],
             made |-> left.made]
       ELSE [groupNodes |->
               Append(built.groupNodes,
                 [type |-> "folder", id |-> generateNodeId(left.made + 1),
                  name |-> OtherFavorites, children |-> SortByName(left.leftoverNodes),
                  ref |-> NewObject(left.made + 1)]),
             made |-> left.made + 1]
  ELSE [groupNodes |-> built.groupNodes, made |-> built.made]

\* The folder returned, around the groups.
TitledFolder(plan, groups) ==
  [type |-> "folder", id |-> generateNodeId(groups.made + 1),
   name |-> IF plan.folderTitle # Undefined /\ Trim(plan.folderTitle[1]) # <<>>
            THEN Trim(plan.folderTitle[1]) ELSE GeneratedFolderTitle,
   children |-> groups.groupNodes, ref |-> NewObject(groups.made + 1)]

\* The part of buildFolderFromAiPlan after the loop over the groups.
FolderOfGroups(plan, matches, built) ==
  IF Len(built.groupNodes) = 0 THEN Undefined
  ELSE LET Eligible(match) == MatchWith(matches, match.id) # Undefined
           eligibleMatches == SelectSeq(matches, Eligible)
       IN Some(TitledFolder(plan,
            WithLeftovers(built,
              Leftovers(eligibleMatches, built.usedIds,
                [usedIds |-> {}, leftoverNodes |-> <<>>, made |-> built.made]),
              Len(eligibleMatches))))

\* Returns Undefined for null, or Some(folder).  The strategy only enters
\* the generated title and is left out.
buildFolderFromAiPlan(plan, matches) ==
  IF Len(plan.groups) = 0 THEN Undefined
  ELSE FolderOfGroups(plan, matches,
         BuildGroups(plan.groups, matches,
           [usedIds |-> {}, groupNodes |-> <<>>, fallbackIndex |-> Undefined,
            made |-> 0]))

(***************************************************************************)
(* One application of a plan: call holds the plan of the succeeded job,    *)
(* the matches kept from the submission, the document, and after the       *)
(* effect has run the folder built (if any) and the document handed to     *)
(* onDocumentChange.                                                       *)
(***************************************************************************)
InputBookmarks ==
  <<BookmarkNode(1, <<"B">>), BookmarkNode(2, <<" ", "A", " ", " ", "C">>),
    BookmarkNode(3, <<" ">>)>>

MatchLists == {SubSeq(InputBookmarks, 1, n) : n \in 1..MaxMatches}

\* References as normalizePlan returns them: a trimmed id, of a submitted
\* bookmark or not, and an optional new name.
PlanRefs ==
  {[id |-> <<"n", "1">>, newName |-> Some(<<"Z">>)],
   [id |-> <<"n", "2">>, newName |-> Undefined],
   [id |-> MissingId, newName |-> Undefined]}

PlanGroups ==
  {[name |-> name, bookmarks |-> refs] :
     name \in {<<"G">>, <<"M", "i", "s", "c">>}, refs \in SeqsUpTo(PlanRefs, 2) \ {<<>>}}

Plans ==
  {[groups |-> groups, folderTitle |-> title] :
     groups \in SeqsUpTo(PlanGroups, MaxApplyGroups) \ {<<>>},
     title \in {Undefined, Some(<<"T">>)}}

ApplyInit ==
  /\ NoJobs
  /\ call \in {[op |-> "apply", plan |-> plan, matches |-> matches,
                document |-> Document(FolderNode(9, <<"R">>, matches)),
                applied |-> FALSE, nextFolder |-> Undefined, failed |-> FALSE] :
                 plan \in Plans, matches \in MatchLists}

\* What the effect leaves for the folder that was built, or for none.
AfterApply(state, nextFolder) ==
  IF nextFolder = Undefined
  THEN [state EXCEPT !.applied = TRUE, !.failed = TRUE]
  ELSE [state EXCEPT
          !.applied = TRUE,
          !.nextFolder = nextFolder,
          !.document =
             [@ EXCEPT
                !.root = [@ EXCEPT !.children = @ \o nextFolder, !.ref = Copy(@)],
                !.statistics =
                   calculateBookmarkStatistics(
                     Some([state.document.root EXCEPT !.children = @ \o nextFolder])),
                !.ref = Copy(@)]]

\* The effect of the viewer for a succeeded job with a plan and matches.
ApplyPlan ==
  /\ call.op = "apply"
  /\ ~call.applied
  /\ call' = AfterApply(call, buildFolderFromAiPlan(call.plan, call.matches))
  /\ UNCHANGED jobVars

ApplyNext == ApplyPlan

ApplySpec == ApplyInit /\ [][ApplyNext]_vars

Applied == call.op = "apply" /\ call.applied

\* The places <<g, c>> of the clones of a bookmark in the group folders of
\* the new folder: the clone has the bookmark's url under an id that no
\* submitted bookmark has.
ClonesOf(match) ==
  LET groups == call.nextFolder[1].children
  IN {place \in (1..Len(groups)) \X (1..(MaxMatches + 1)) :
        /\ place[2] <= Len(groups[place[1]].children)
        /\ LET clone == groups[place[1]].children[place[2]]
           IN /\ clone.type = "bookmark"
              /\ clone.url = match.url
              /\ \A i \in 1..Len(call.matches) : clone.id # call.matches[i].id}

\* The groups of the plan, by place, that refer to a bookmark.
ClaimingGroups(match) ==
  {g \in 1..Len(call.plan.groups) :
     \E r \in 1..Len(call.plan.groups[g].bookmarks) :
       call.plan.groups[g].bookmarks[r].id = match.id}

\* Each submitted bookmark has exactly one clone in the group folders: in a
\* folder with the name of the first group that claims it, or in a folder
\* with the name of a residual group if no group claims it.
EveryBookmarkKeptOnce ==
  \A i \in 1..Len(call.matches) :
    LET match == call.matches[i]
        claiming == ClaimingGroups(match)
    IN /\ Cardinality(ClonesOf(match)) = 1
       /\ \A place \in ClonesOf(match) :
            LET folder == call.nextFolder[1].children[place[1]]
            IN IF claiming = {} THEN folder.name \in FallbackGroupNames
               ELSE folder.name =
                      call.plan.groups[CHOOSE g \in claiming : \A k \in claiming : g <= k].name

\* C13: for every plan and every list of submitted bookmarks, applying the
\* plan builds a folder in whose group folders each submitted bookmark has
\* exactly one clone with a fresh id, in the first group that claims it, or
\* in the residual group if no group claims it.
C13_ApplyKeepsEveryBookmark ==
  Applied => (call.nextFolder # Undefined /\ EveryBookmarkKeptOnce)

(***************************************************************************)
(* The importer, parseBookmarksHtml.  The HTML parser hands the handlers   *)
(* a sequence of events: an open tag with its attributes (of which href is *)
(* kept), a close tag, or a text.  The nodes the handlers create are       *)
(* objects that the stack, pendingFolder, currentTarget and the children   *)
(* lists refer to: nodes is the list of the objects created so far, the    *)
(* root first, and a reference is a place in that list.                    *)
(***************************************************************************)
OpenTag(tag, href) == [kind |-> "open", tag |-> tag, href |-> href]

CloseTag(tag) == [kind |-> "close", tag |-> tag]

Text(text) == [kind |-> "text", text |-> text]

AllBookmarks == <<"A", "l", "l", " ", "b", "o", "o", "k", "m", "a", "r", "k", "s">>

NewFolder(name) ==
  [type |-> "folder", name |-> name, url |-> Undefined, description |-> Undefined,
   children |-> <<>>]

NewBookmark(url) ==
  [type |-> "bookmark", name |-> <<>>, url |-> Some(url), description |-> Undefined,
   children |-> <<>>]

\* The state of the closure before the first event.
ParserStart ==
  [nodes |-> <<NewFolder(AllBookmarks)>>, stack |-> <<1>>, pendingFolder |-> Undefined,
   currentTarget |-> Undefined]

Top(stack) == stack[Len(stack)]

\* onclosetag that pops whatever is on top, the root too.
onclosetag_PopsRoot(p, tag) ==
  IF tag = "dl" THEN [p EXCEPT !.stack = SubSeq(@, 1, Len(@) - 1)]
  ELSE IF tag \in {"h1", "h3", "a", "dd"} THEN [p EXCEPT !.currentTarget = Undefined]
  ELSE p

\* onopentag that attaches a link to the root whatever the stack holds.
onopentag_LinksUnderRoot(p, tag, href) ==
  IF tag = "dl"
  THEN IF p.pendingFolder # Undefined
       THEN [p EXCEPT !.nodes[Top(p.stack)].children = Append(@, p.pendingFolder[1]),
                      !.stack = Append(@, p.pendingFolder[1]),
                      !.pendingFolder = Undefined]
       ELSE p
  ELSE IF tag = "a"
  THEN [p EXCEPT !.nodes = Append([@ EXCEPT ![1].children = Append(@, Len(p.nodes) + 1)],
                             NewBookmark(IF href = Undefined THEN <<>> ELSE href[1])),
                 !.currentTarget = Some([kind |-> "bookmark", node |-> Len(p.nodes) + 1])]
  ELSE IF tag = "h3"
  THEN [p EXCEPT !.nodes = Append(@, NewFolder(<<>>)),
                 !.pendingFolder = Some(Len(p.nodes) + 1),
                 !.currentTarget = Some([kind |-> "folder", node |-> Len(p.nodes) + 1])]
  ELSE [p EXCEPT !.currentTarget = Undefined]

\* p is the state of the closure; the attributes other than href only fill
\* fields of the new node and are left out.
onopentag(p, tag, href) ==
  IF tag = "dl"
  THEN IF p.pendingFolder # Undefined
       THEN [p EXCEPT !.nodes[Top(p.stack)].children = Append(@, p.pendingFolder[1]),
                      !.stack = Append(@, p.pendingFolder[1]),
                      !.pendingFolder = Undefined]
       ELSE p
  ELSE IF tag = "dt" THEN [p EXCEPT !.currentTarget = Undefined]
  ELSE IF tag = "h1" THEN [p EXCEPT !.currentTarget = Some([kind |-> "folder", node |-> 1])]
  ELSE IF tag = "h3"
  THEN [p EXCEPT !.nodes = Append(@, NewFolder(<<>>)),
                 !.pendingFolder = Some(Len(p.nodes) + 1),
                 !.currentTarget = Some([kind |-> "folder", node |-> Len(p.nodes) + 1])]
  ELSE IF tag = "a"
  THEN [p EXCEPT !.nodes = Append([@ EXCEPT ![Top(p.stack)].children =
                                               Append(@, Len(p.nodes) + 1)],
                             NewBookmark(IF href = Undefined THEN <<>> ELSE href[1])),
                 !.currentTarget = Some([kind |-> "bookmark", node |-> Len(p.nodes) + 1])]
  ELSE IF tag = "dd"
  THEN LET children == p.nodes[Top(p.stack)].children
       IN IF children # <<>>
          THEN [p EXCEPT !.currentTarget =
                           Some([kind |-> "description", node |-> children[Len(children)]])]
          ELSE p
  ELSE [p EXCEPT !.currentTarget = Undefined]

onclosetag(p, tag) ==
  IF tag = "dl"
  THEN IF Len(p.stack) > 1 THEN [p EXCEPT !.stack = SubSeq(@, 1, Len(@) - 1)] ELSE p
  ELSE IF tag \in {"h1", "h3", "a", "dd"} THEN [p EXCEPT !.currentTarget = Undefined]
  ELSE p

ontext(p, text) ==
  IF p.currentTarget = Undefined THEN p
  ELSE LET trimmed == Trim(text)
           target == p.currentTarget[1]
           node == p.nodes[target.node]
       IN IF trimmed = <<>> THEN p
          ELSE IF target.kind = "description"
          THEN [p EXCEPT !.nodes[target.node].description =
                           Some(IF node.description # Undefined /\ node.description[1] # <<>>
                                THEN node.description[1] \o <<"\n">> \o trimmed
                                ELSE trimmed)]
          ELSE [p EXCEPT !.nodes[target.node].name =
                           Trim(IF node.name # <<>> THEN node.name \o <<" ">> \o trimmed
                                ELSE trimmed)]

\* The tree under the object at place k, as the document holds it.
RECURSIVE TreeOf(_, _)
TreeOf(nodes, k) ==
  IF nodes[k].type = "bookmark"
  THEN [type |-> "bookmark", id |-> <<"n", IdChars[k]>>, name |-> nodes[k].name,
        url |-> nodes[k].url[1], description |-> nodes[k].description,
        ref |-> Object(k)]
  ELSE [type |-> "folder", id |-> <<"n", IdChars[k]>>, name |-> nodes[k].name,
        description |-> nodes[k].description,
        children |-> [i \in 1..Len(nodes[k].children) |-> TreeOf(nodes, nodes[k].children[i])],
        ref |-> Object(k)]

\* The document returned once the parser has handed over every event.
ParsedDocument(p) ==
  [version |-> "1", generated_at |-> "2024-01-01T00:00:00Z", source |-> "import",
   generator |-> "bookmark-saas",
   statistics |-> calculateBookmarkStatistics(Some(TreeOf(p.nodes, 1))),
   root |-> TreeOf(p.nodes, 1)]

(***************************************************************************)
(* The inputs of the importer.  A bookmarks file is a list of items: a     *)
(* link, a folder (a heading followed by the list of its items), or a list *)
(* that no heading introduces; a link and a folder may carry a description *)
(* (a DD right after the link or the heading).  Render gives the events of *)
(* a file, the implied closes of DT and DD included.  The other inputs are *)
(* all short sequences of events, balanced or not.                         *)
(***************************************************************************)
MaxItems == 3
MaxEvents == 3

Descriptions == {Undefined, Some(<<"d">>)}

RECURSIVE ItemLists(_)
RECURSIVE Items(_)
ItemLists(n) ==
  IF n = 0 THEN {<<>>}
  ELSE UNION {{<<t>> \o f : t \in Items(k), f \in ItemLists(n - k)} : k \in 1..n}

Items(n) ==
  (IF n = 1 THEN {[type |-> "link", description |-> d] : d \in Descriptions} ELSE {})
    \cup {[type |-> "folder", description |-> d, items |-> f] :
            d \in Descriptions, f \in ItemLists(n - 1)}
    \cup {[type |-> "list", items |-> f] : f \in ItemLists(n - 1)}

\* The name of the k-th link or heading of a file, and its description.
ItemName(k) == <<"N", IdChars[k]>>

ItemDescription(k) == <<"d", IdChars[k]>>

\* Numbers the links and headings of a list of items in file order, from
\* next on: the k-th is the one the importer creates its (k+1)-th node for.
RECURSIVE NumberItems(_, _, _)
NumberItems(items, next, done) ==
  IF items = <<>> THEN [items |-> done, next |-> next]
  ELSE LET item == Head(items)
       IN IF item.type = "link"
          THEN NumberItems(Tail(items), next + 1,
                 Append(done, [type |-> "link", k |-> next,
                               description |-> item.description]))
          ELSE IF item.type = "folder"
          THEN LET inner == NumberItems(item.items, next + 1, <<>>)
               IN NumberItems(Tail(items), inner.next,
                    Append(done, [type |-> "folder", k |-> next,
                                  description |-> item.description,
                                  items |-> inner.items]))
          ELSE LET inner == NumberItems(item.items, next, <<>>)
               IN NumberItems(Tail(items), inner.next,
                    Append(done, [type |-> "list", items |-> inner.items]))

Files == {NumberItems(f, 1, <<>>).items : f \in UNION {ItemLists(n) : n \in 0..MaxItems}}

\* The DD of an item with a description: it closes the DT it follows.
RenderDescription(item) ==
  IF item.description = Undefined THEN <<>>
  ELSE <<CloseTag("dt"), OpenTag("dd", Undefined), Text(ItemDescription(item.k))>>

RECURSIVE Render(_)
RECURSIVE RenderItem(_)
Render(items) ==
  IF items = <<>> THEN <<>> ELSE RenderItem(Head(items)) \o Render(Tail(items))

RenderItem(item) ==
  LET closing == IF item.description = Undefined THEN CloseTag("dt") ELSE CloseTag("dd")
  IN IF item.type = "link"
     THEN <<OpenTag("dt", Undefined), OpenTag("a", Some(<<"u", IdChars[item.k]>>)),
            Text(ItemName(item.k)), CloseTag("a")>>
            \o RenderDescription(item) \o <<closing>>
     ELSE IF item.type = "folder"
     THEN <<OpenTag("dt", Undefined), OpenTag("h3", Undefined),
            Text(<<" ">> \o ItemName(item.k)), CloseTag("h3")>>
            \o RenderDescription(item)
            \o <<OpenTag("dl", Undefined)>> \o Render(item.items)
            \o <<CloseTag("dl"), closing>>
     ELSE <<OpenTag("dl", Undefined)>> \o Render(item.items) \o <<CloseTag("dl")>>

RenderFile(items) == <<OpenTag("dl", Undefined)>> \o Render(items) \o <<CloseTag("dl")>>

\* <DL><DT><H3>Work</H3><DL><DT><A HREF="http://a.test">A</A></DL></DL>
WorkExample ==
  <<OpenTag("dl", Undefined), OpenTag("dt", Undefined), OpenTag("h3", Undefined),
    Text(<<"W", "o", "r", "k">>), CloseTag("h3"), OpenTag("dl", Undefined),
    OpenTag("dt", Undefined), OpenTag("a", Some(<<"http://a.test">>)), Text(<<"A">>),
    CloseTag("a"), CloseTag("dt"), CloseTag("dl"), CloseTag("dt"), CloseTag("dl")>>

EventAlphabet ==
  {OpenTag(tag, Undefined) : tag \in {"dl", "dt", "h1", "h3", "a", "dd", "p"}}
    \cup {CloseTag(tag) : tag \in {"dl", "a", "p"}}
    \cup {Text(<<"x">>), Text(<<" ">>)}

\* An input is the file it renders, if it is one, and its events.
ParserInputs ==
  {[file |-> Some(f), events |-> RenderFile(f)] : f \in Files}
    \cup {[file |-> Undefined, events |-> e] :
            e \in SeqsUpTo(EventAlphabet, MaxEvents) \cup {WorkExample}}

(***************************************************************************)
(* One run of parseBookmarksHtml: call holds the input, the number of      *)
(* events handed over so far, the state of the closure and, after          *)
(* parser.end(), the document returned.                                    *)
(***************************************************************************)
ImportInit ==
  /\ NoJobs
  /\ call \in {[op |-> "parse", file |-> input.file, events |-> input.events,
                handled |-> 0, parser |-> ParserStart, document |-> Undefined] :
                 input \in ParserInputs}

NextEvent == call.events[call.handled + 1]

Parsing == call.op = "parse" /\ call.handled < Len(call.events)

OnOpenTag ==
  /\ Parsing
  /\ NextEvent.kind = "open"
  /\ call' = [call EXCEPT !.handled = @ + 1,
                          !.parser = onopentag(@, NextEvent.tag, NextEvent.href)]
  /\ UNCHANGED jobVars

OnCloseTag ==
  /\ Parsing
  /\ NextEvent.kind = "close"
  /\ call' = [call EXCEPT !.handled = @ + 1, !.parser = onclosetag(@, NextEvent.tag)]
  /\ UNCHANGED jobVars

OnText ==
  /\ Parsing
  /\ NextEvent.kind = "text"
  /\ call' = [call EXCEPT !.handled = @ + 1, !.parser = ontext(@, NextEvent.text)]
  /\ UNCHANGED jobVars

\* parser.end() and the return of the document.
ReturnDocument ==
  /\ call.op = "parse"
  /\ call.handled = Len(call.events)
  /\ call.document = Undefined
  /\ call' = [call EXCEPT !.document = Some(ParsedDocument(call.parser))]
  /\ UNCHANGED jobVars

ImportNext == OnOpenTag \/ OnCloseTag \/ OnText \/ ReturnDocument

ImportSpec == ImportInit /\ [][ImportNext]_vars

Returned == call.op = "parse" /\ call.document # Undefined

\* What the nesting of a node is made of: its type, its name, its children.
RECURSIVE NestingOf(_)
NestingOf(node) ==
  IF node.type = "bookmark" THEN [type |-> "bookmark", name |-> node.name]
  ELSE [type |-> "folder", name |-> node.name,
        children |-> [i \in 1..Len(node.children) |-> NestingOf(node.children[i])]]

\* The nesting a file shows, for a file whose lists all follow a heading.
RECURSIVE NestingOfItems(_)
NestingOfItems(items) ==
  [i \in 1..Len(items) |->
     IF items[i].type = "link" THEN [type |-> "bookmark", name |-> ItemName(items[i].k)]
     ELSE [type |-> "folder", name |-> ItemName(items[i].k),
           children |-> NestingOfItems(items[i].items)]]

RECURSIVE HasBareList(_)
HasBareList(items) ==
  \E i \in 1..Len(items) :
    items[i].type = "list" \/ (items[i].type = "folder" /\ HasBareList(items[i].items))

\* C22: a list-open with a pending folder makes that folder the last child
\* of the folder on top of the stack and pushes it; a link becomes the last
\* child of the folder on top of the stack; so the document returned for a
\* file in which every inner list follows a folder heading has the nesting
\* and the sibling order of the file, and the events of
\* <DL><DT><H3>Work</H3><DL><DT><A HREF="http://a.test">A</A></DL></DL>
\* give root > folder "Work" > bookmark "A".
C22_NestingMirrorsInput ==
  [][/\ (Parsing /\ NextEvent = OpenTag("dl", Undefined)
           /\ call.parser.pendingFolder # Undefined) =>
          LET folder == call.parser.pendingFolder[1]
              top == Top(call.parser.stack)
          IN /\ call'.parser.stack = Append(call.parser.stack, folder)
             /\ call'.parser.nodes[top].children =
                  Append(call.parser.nodes[top].children, folder)
     /\ (Parsing /\ NextEvent.kind = "open" /\ NextEvent.tag = "a") =>
          LET top == Top(call.parser.stack)
          IN /\ Len(call'.parser.nodes) = Len(call.parser.nodes) + 1
             /\ call'.parser.nodes[Len(call'.parser.nodes)].type = "bookmark"
             /\ call'.parser.nodes[top].children =
                  Append(call.parser.nodes[top].children, Len(call'.parser.nodes))
             /\ call'.parser.stack = call.parser.stack
     /\ (Returned' /\ call.file # Undefined /\ ~HasBareList(call.file[1])) =>
          NestingOf(call'.document[1].root) =
            [type |-> "folder", name |-> AllBookmarks,
             children |-> NestingOfItems(call.file[1])]
     /\ (Returned' /\ call.events = WorkExample) =>
          NestingOf(call'.document[1].root) =
            [type |-> "folder", name |-> AllBookmarks,
             children |->
               <<[type |-> "folder", name |-> <<"W", "o", "r", "k">>,
                  children |-> <<[type |-> "bookmark", name |-> <<"A">>]>>]>>]
    ]_vars

\* The document returned for a file with a link in a folder in a folder.
C22_Witness ==
  /\ Returned
  /\ call.file # Undefined /\ ~HasBareList(call.file[1])
  /\ LET root == call.document[1].root
     IN /\ Len(root.children) = 1
        /\ root.children[1].type = "folder"
        /\ Len(root.children[1].children) = 1
        /\ root.children[1].children[1].type = "folder"
        /\ Len(root.children[1].children[1].children) = 1
        /\ root.children[1].children[1].children[1].type = "bookmark"

\* How many of the events handed over so far are of one kind and tag.
HandledTags(kind, tag) ==
  Cardinality({i \in 1..call.handled :
                 call.events[i].kind = kind /\ call.events[i].tag = tag})

\* C23: whatever the events, balanced or not, the folder stack is never
\* empty and its bottom is the root (the first object, a folder), which no
\* list close takes off; the objects form
\* one tree (no object is a child twice, the root is nobody's child) and
\* the document returned is rooted at that folder.
C23_StackKeepsRoot ==
  call.op = "parse" =>
    LET p == call.parser
    IN /\ Len(p.stack) >= 1
       /\ p.stack[1] = 1
       /\ p.nodes[1].type = "folder"
       /\ \A k \in 2..Len(p.stack) : p.nodes[p.stack[k]].type = "folder"
       /\ \A k \in 1..Len(p.nodes) :
            Cardinality({slot \in (1..Len(p.nodes)) \X (1..Len(p.nodes)) :
                           /\ slot[2] <= Len(p.nodes[slot[1]].children)
                           /\ p.nodes[slot[1]].children[slot[2]] = k})
              <= (IF k = 1 THEN 0 ELSE 1)
       /\ call.document # Undefined =>
            /\ call.document[1].root.type = "folder"
            /\ call.document[1].root.ref = Object(1)

\* More lists were closed than were opened, around a link.
C23_Witness ==
  /\ call.op = "parse"
  /\ HandledTags("close", "dl") > HandledTags("open", "dl")
  /\ Len(call.parser.nodes[1].children) >= 1
  /\ Len(call.parser.stack) = 1

\* The links and headings of a list of items, those of inner lists included.
RECURSIVE Entries(_)
Entries(items) ==
  UNION {(IF items[i].type = "list" THEN {} ELSE {items[i]})
           \cup (IF items[i].type = "link" THEN {} ELSE Entries(items[i].items)) :
         i \in 1..Len(items)}

Handled == call.op = "parse" /\ call.handled = Len(call.events)

\* The description the file gives an entry is the description of the node
\* created for it: the k-th entry's node is the (k+1)-th object.
DescriptionKept(entry) ==
  call.parser.nodes[entry.k + 1].description =
    IF entry.description = Undefined THEN Undefined
    ELSE Some(ItemDescription(entry.k))

\* C24: once a file is handled, the text of a description that follows a
\* folder heading is the description of that folder, the text of one that
\* follows a link is the description of that bookmark, and no other node
\* (such as the previous sibling) has received it.
C24_DescriptionGoesToItsEntry ==
  (Handled /\ call.file # Undefined) =>
    \A entry \in Entries(call.file[1]) : DescriptionKept(entry)

\* C30: once a file is handled, every link is a child of the folder that
\* encloses it in the file, a list without a heading counting as part of
\* the folder around it: such a list pushes nothing and its close takes
\* nothing off, so the links after it stay in the enclosing folder.
RECURSIVE Enclosed(_, _)
Enclosed(items, folder) ==
  UNION {IF items[i].type = "link" THEN {<<folder, items[i].k + 1>>}
         ELSE IF items[i].type = "folder"
              THEN {<<folder, items[i].k + 1>>} \cup Enclosed(items[i].items, items[i].k + 1)
              ELSE Enclosed(items[i].items, folder) :
         i \in 1..Len(items)}

C30_BareListKeepsEnclosingFolder ==
  (Handled /\ call.file # Undefined) =>
    \A pair \in Enclosed(call.file[1], 1) :
      \E i \in 1..Len(call.parser.nodes[pair[1]].children) :
        call.parser.nodes[pair[1]].children[i] = pair[2]

(***************************************************************************)
(* The options of the digest.  generateAiPlan asks getDigestOptions for    *)
(* the options of each attempt, with the number of submitted bookmarks and *)
(* whether the attempt is a retry.                                         *)
(***************************************************************************)
DEFAULT_FIELD_LIMIT == 120

DigestFormattingOptions(includeUrl, includeTrail, includeParentFolder, maxFieldLength) ==
  [includeUrl |-> includeUrl, includeTrail |-> includeTrail,
   includeParentFolder |-> includeParentFolder, maxFieldLength |-> maxFieldLength]

\* getDigestOptions that pays no attention to isRetry.
getDigestOptions_IgnoresRetry(count, isRetry) ==
  IF count <= 80 THEN DigestFormattingOptions(TRUE, TRUE, TRUE, DEFAULT_FIELD_LIMIT)
  ELSE IF count <= 160 THEN DigestFormattingOptions(TRUE, FALSE, TRUE, 110)
  ELSE IF count <= 220 THEN DigestFormattingOptions(TRUE, FALSE, FALSE, 100)
  ELSE DigestFormattingOptions(FALSE, FALSE, FALSE, 80)

getDigestOptions(count, isRetry) ==
  IF isRetry
  THEN IF count <= 120 THEN DigestFormattingOptions(TRUE, FALSE, FALSE, 100)
       ELSE DigestFormattingOptions(FALSE, FALSE, FALSE, 80)
  ELSE IF count <= 80 THEN DigestFormattingOptions(TRUE, TRUE, TRUE, DEFAULT_FIELD_LIMIT)
  ELSE IF count <= 160 THEN DigestFormattingOptions(TRUE, FALSE, TRUE, 110)
  ELSE IF count <= 220 THEN DigestFormattingOptions(TRUE, FALSE, FALSE, 100)
  ELSE DigestFormattingOptions(FALSE, FALSE, FALSE, 80)

(***************************************************************************)
(* The attempts of two jobs, the second with at least as many bookmarks as *)
(* the first: call holds the two counts and, per job, the options of the   *)
(* attempts made so far (attempt 0 first).                                 *)
(***************************************************************************)
MaxCount == 225

DigestInit ==
  /\ NoJobs
  /\ call \in {[op |-> "digest", counts |-> <<a, b>>, options |-> <<<<>>, <<>>>>] :
                 a \in 1..MaxCount, b \in 1..MaxCount}
  /\ call.counts[1] <= call.counts[2]

\* The top of the loop body of generateAiPlan for the next attempt of job j.
NextAttempt(j) ==
  /\ call.op = "digest"
  /\ Len(call.options[j]) < MAX_AI_ATTEMPTS
  /\ call' = [call EXCEPT !.options[j] =
                Append(@, getDigestOptions(call.counts[j], Len(@) > 0))]
  /\ UNCHANGED jobVars

DigestNext == \E j \in 1..2 : NextAttempt(j)

DigestSpec == DigestInit /\ [][DigestNext]_vars

\* The optional fields a digest includes under some options.
IncludedFields(options) ==
  (IF options.includeUrl THEN {"url"} ELSE {})
    \cup (IF options.includeParentFolder THEN {"parentFolder"} ELSE {})
    \cup (IF options.includeTrail THEN {"trail"} ELSE {})

\* On first attempts the job with more bookmarks includes no field the other
\* leaves out, and truncates no later.
FirstAttemptsShrink ==
  (call.op = "digest" /\ Len(call.options[1]) >= 1 /\ Len(call.options[2]) >= 1) =>
    /\ IncludedFields(call.options[2][1]) \subseteq IncludedFields(call.options[1][1])
    /\ call.options[2][1].maxFieldLength <= call.options[1][1].maxFieldLength

Retried(j) == call.op = "digest" /\ Len(call.options[j]) = 2

\* C25 as stated: on first attempts the included optional fields only shrink
\* and the truncation length never increases as the count grows; and for
\* every count the options of the retry include no trail, no field the first
\* attempt left out, and a truncation length below that of the first attempt.
C25_RetryAlwaysTighter ==
  /\ FirstAttemptsShrink
  /\ \A j \in 1..2 :
       Retried(j) =>
         /\ ~call.options[j][2].includeTrail
         /\ IncludedFields(call.options[j][2]) \subseteq IncludedFields(call.options[j][1])
         /\ call.options[j][2].maxFieldLength < call.options[j][1].maxFieldLength

\* C25 amended: as above, but the truncation length of the retry is below
\* that of the first attempt for up to 220 bookmarks only; for more than 220
\* the first attempt already includes no optional field and truncates at 80,
\* and the retry uses the same options.
C25_RetryTighterUpTo220 ==
  /\ FirstAttemptsShrink
  /\ \A j \in 1..2 :
       Retried(j) =>
         /\ ~call.options[j][2].includeTrail
         /\ IncludedFields(call.options[j][2]) \subseteq IncludedFields(call.options[j][1])
         /\ IF call.counts[j] <= 220
            THEN call.options[j][2].maxFieldLength < call.options[j][1].maxFieldLength
            ELSE call.options[j][2] = call.options[j][1]

\* Jobs of 220 and of 221 bookmarks, both retried.
C25_Witness ==
  /\ call.op = "digest"
  /\ call.counts = <<220, 221>>
  /\ Retried(1) /\ Retried(2)

(***************************************************************************)
(* Further properties of the job engine.                                   *)
(***************************************************************************)
InFlight(j) == task[j].pc \in {"fetch", "body"}

\* The step ends an attempt of job j, and cause is what ended it.
AttemptEnded(j, cause) ==
  Len(hist'[j]) = Len(hist[j]) + 1 /\ hist'[j][Len(hist'[j])].end = cause

\* C26: the signal handed to the request in flight is aborted exactly when
\* the job's cancellation signal is aborted or the timer of the request has
\* fired, with the reason of the one that came first; an attempt that the
\* timeout ends (with no cancel requested) ends the job failed, and one that
\* the user's abort ends ends the job cancelled.
C26_AbortOnCancelOrTimeout ==
  [][\A j \in JobIds :
       /\ InFlight(j) =>
            /\ (task[j].merged # "none") <=> (task[j].aborted \/ task[j].timer = "fired")
            /\ task[j].merged = "user" => task[j].aborted
            /\ task[j].merged = "timeout" => task[j].timer = "fired"
            /\ (InFlight(j)' /\ task'[j].attempt = task[j].attempt
                  /\ task[j].merged # "none") => task'[j].merged = task[j].merged
       /\ (AttemptEnded(j, "timeout") /\ Present(j) /\ ~Snapshot(j).cancelRequested) =>
            /\ task'[j].pc = "done"
            /\ store'[j].snapshot.status = "failed"
       /\ (AttemptEnded(j, "abort") /\ Present(j)) =>
            /\ task'[j].pc = "done"
            /\ store'[j].snapshot.status = "cancelled"]_vars

\* C27: every stored snapshot is consistent with its status: finishedAt is
\* set exactly when the status is succeeded, failed or cancelled; result is
\* set exactly when it is succeeded; error is set only when it is failed; a
\* cancelled job has cancelRequested = true and a succeeded or failed job
\* has cancelRequested = false.
C27_SnapshotFieldsFollowStatus ==
  \A j \in JobIds :
    Present(j) =>
      /\ (Snapshot(j).finishedAt # Undefined) <=> IsTerminal(Snapshot(j).status)
      /\ (Snapshot(j).result # Undefined) <=> Snapshot(j).status = "succeeded"
      /\ Snapshot(j).error # Undefined => Snapshot(j).status = "failed"
      /\ Snapshot(j).status = "cancelled" => Snapshot(j).cancelRequested
      /\ Snapshot(j).status \in {"succeeded", "failed"} => ~Snapshot(j).cancelRequested

\* A failed job with its error, after a cancel call that came too late.
C27_Witness ==
  \E j \in JobIds :
    /\ Present(j) /\ Snapshot(j).status = "failed"
    /\ Snapshot(j).error # Undefined /\ Snapshot(j).finishedAt # Undefined
    /\ reply.op = "DELETE" /\ reply.job = Some(Snapshot(j))

(***************************************************************************)
(* Progress of the background task.  POST launches the task right after it *)
(* created the job, and the task runs on whenever the call it awaits       *)
(* settles; the platform settles every fetch and every body read (with a   *)
(* response, an error, the abort or the timeout).  So a step of the task   *)
(* that can be taken is taken eventually.  Progress does not depend on     *)
(* what a response holds beyond the way its attempt ends, so the bodies    *)
(* are one of each kind: no object, no content, a server error, text       *)
(* without JSON, an object without groups, a plan, and the failed reads.   *)
(***************************************************************************)
LiveBodyResults ==
  {[read |-> TRUE, payload |-> p] :
     p \in {[kind |-> "notObject"], [kind |-> "noContent"], [kind |-> "serverError"],
            [kind |-> "content", content |-> [kind |-> "text"]],
            [kind |-> "content", content |-> [kind |-> "object", groups |-> Undefined]],
            [kind |-> "content",
             content |-> [kind |-> "object",
                          groups |-> Some(<<RawGroup(<<" ", "D">>, <<RawRef(<<"1">>)>>)>>)]]}}
    \cup {[read |-> FALSE, cause |-> c] : c \in {"content", "network", "abort", "timeout"}}

TaskStep ==
  \E j \in JobIds :
    \/ LaunchJob(j)
    \/ \E ok \in BOOLEAN : FetchResolve(j, ok)
    \/ \E cause \in {"network", "abort", "timeout"} : FetchReject(j, cause)
    \/ \E body \in LiveBodyResults : BodyRead(j, body)

LiveNext ==
  \E j \in JobIds :
    \/ \E n \in TotalBookmarks : CreateJob(j, n)
    \/ LaunchJob(j)
    \/ \E ok \in BOOLEAN : FetchResolve(j, ok)
    \/ \E cause \in {"network", "abort", "timeout"} : FetchReject(j, cause)
    \/ \E body \in LiveBodyResults : BodyRead(j, body)
    \/ TimeoutFires(j)
    \/ GET(j)
    \/ DELETE(j)

LiveSpec == Init /\ [][LiveNext]_vars /\ WF_vars(TaskStep)

TaskEnded(j) ==
  /\ task[j].pc = "done"
  /\ Present(j) /\ IsTerminal(Snapshot(j).status)
  /\ ~store[j].controller
  /\ cancelAt[j] # Undefined => Snapshot(j).status = "cancelled"

\* C28: a job whose task was launched eventually is succeeded, failed or
\* cancelled with its task ended and no abort controller attached to its
\* record; if a cancel was requested while it was running, it is cancelled
\* then, so a running job with cancelRequested = true does not stay running.
C28_LaunchedJobsFinish ==
  \A j \in JobIds : (task[j].pc \in {"created", "fetch", "body"}) ~> TaskEnded(j)

\* A job that was asked to stop while its second request was in flight, with
\* its task ended.
C28_Witness ==
  \E j \in JobIds :
    /\ TaskEnded(j)
    /\ sent[j] = 2
    /\ cancelAt[j] # Undefined /\ cancelAt[j][1].attempt = 1
    /\ Snapshot(j).status = "cancelled"

(***************************************************************************)
(* Removal.  removeAiOrganizeJob deletes a record from the table; the      *)
(* specification below lets it be called for the job at any time, next to  *)
(* the steps of the job engine.  The table holds a second job from the     *)
(* start, one that was cancelled while pending and has no task; job ids    *)
(* are not reused.                                                         *)
(***************************************************************************)
OtherJob == "job0"

OtherJobStore ==
  markAiOrganizeJobCancelRequested(
    createAiOrganizeJob([j \in {} |-> NoTask], OtherJob, 1, 0), OtherJob, 1)

RemoveInit ==
  /\ store = OtherJobStore
  /\ task = [j \in JobIds |-> NoTask]
  /\ clock = 2
  /\ reply = NoReply
  /\ sent = [j \in JobIds |-> 0]
  /\ hist = [j \in JobIds |-> <<>>]
  /\ cancelAt = [j \in JobIds |-> Undefined]
  /\ cancels = 0
  /\ call = NoCall

RemoveJob(j) ==
  /\ j \in DOMAIN store
  /\ store' = removeAiOrganizeJob(store, j)
  /\ UNCHANGED <<task, clock, reply, sent, hist, cancelAt, cancels, call>>

RemoveNext ==
  \E j \in JobIds :
    \/ \E n \in TotalBookmarks : CreateJob(j, n)
    \/ LaunchJob(j)
    \/ \E ok \in BOOLEAN : FetchResolve(j, ok)
    \/ \E cause \in {"network", "abort", "timeout"} : FetchReject(j, cause)
    \/ \E body \in LiveBodyResults : BodyRead(j, body)
    \/ TimeoutFires(j)
    \/ GET(j)
    \/ DELETE(j)
    \/ RemoveJob(j)

RemoveSpec == RemoveInit /\ [][RemoveNext]_vars

\* Job j was created and is no longer in the table.
Removed(j) == task[j].pc # "none" /\ ~Present(j)

\* C29: once a job is removed it stays out of the table: no step of its
\* task (start, success, failure, cancel) and no cancel call stores it
\* again, a poll and a cancel of it answer not-found, and these steps leave
\* the other job of the table as it is.
C29_RemovalIsPermanent ==
  [][\A j \in JobIds :
       /\ Removed(j) =>
            /\ ~(j \in DOMAIN store')
            /\ store' = store
            /\ reply' # reply => (reply'.code = 404 /\ reply'.job = Undefined)
       /\ store'[OtherJob] = store[OtherJob]]_vars

\* The job was removed while its request was in flight; its task has ended
\* since, and a cancel of it was answered not-found.
C29_Witness ==
  \E j \in JobIds :
    /\ Removed(j)
    /\ task[j].pc = "done" /\ sent[j] >= 1 /\ hist[j] # <<>>
    /\ reply.op = "DELETE" /\ reply.code = 404

====
